---------------------------- MODULE Spec2Model ----------------------------
(***************************************************************************)
(* A model of tcsetup's YAML merge engine (yaml-merge.js): the value       *)
(* model, deepEqual, deduplicateArrays, mergeObjects, the line parser, the *)
(* serializer, MergeResult / MergeChangelog and mergeYAML.                 *)
(*                                                                         *)
(* Text is a sequence of one-character strings, "\n" included, so that     *)
(* parsing and serialization are computed character by character as the    *)
(* code computes them.  A JavaScript value is a record tagged by t:        *)
(*   undef | null | bool(b) | num(n) | str(s) | arr(items, props) |        *)
(*   obj(ents)                                                             *)
(* where ents is the sequence of own properties [k, v] in the order        *)
(* Object.keys reports them, and props are the named (non-index) own       *)
(* properties an Array can carry.                                          *)
(***************************************************************************)
EXTENDS Integers, Sequences, FiniteSets, TLC

(***************************************************************************)
(* Bounds of the model.                                                    *)
(***************************************************************************)
MaxArrLen == 2
MaxKeys == 1
MaxFragments == 2
MaxUpdateFragments == 1
MaxRounds == 2
MaxRoom == 2
MaxFailures == 1

(***************************************************************************)
(* The value model.                                                        *)
(***************************************************************************)
Undefined == [t |-> "undef"]
Null == [t |-> "null"]
Bool(b) == [t |-> "bool", b |-> b]
Num(n) == [t |-> "num", n |-> n]
Str(s) == [t |-> "str", s |-> s]
ArrP(items, props) == [t |-> "arr", items |-> items, props |-> props]
Arr(items) == ArrP(items, <<>>)
Obj(ents) == [t |-> "obj", ents |-> ents]
Ent(k, v) == [k |-> k, v |-> v]
EmptyObj == Obj(<<>>)
EmptyArr == Arr(<<>>)

IsArray(v) == v.t = "arr"
\* typeof v === 'object' (null included, as in JavaScript)
TypeofObject(v) == v.t \in {"null", "arr", "obj"}
Typeof(v) ==
  CASE v.t = "undef" -> "undefined"
    [] v.t = "bool" -> "boolean"
    [] v.t = "num" -> "number"
    [] v.t = "str" -> "string"
    [] OTHER -> "object"
IsPrimitive(v) == v.t \in {"undef", "null", "bool", "num", "str"}
\* a Mapping of the spec: a non-null, non-array object
IsMapping(v) == v.t = "obj"
\* JavaScript truthiness (!v is its negation)
Truthy(v) ==
  CASE v.t \in {"undef", "null"} -> FALSE
    [] v.t = "bool" -> v.b
    [] v.t = "num" -> v.n # 0
    [] v.t = "str" -> v.s # <<>>
    [] OTHER -> TRUE
\* a === b: by value on primitives; two containers built by different
\* calls are never the same object
StrictEq(a, b) == IsPrimitive(a) /\ IsPrimitive(b) /\ a = b

(***************************************************************************)
(* Property keys.  Keys are texts; an array's indices are the decimal      *)
(* texts "0", "1", ...                                                     *)
(***************************************************************************)
Digits == <<"0", "1", "2", "3", "4", "5", "6", "7", "8", "9">>
IsDigit(c) == \E d \in 1..10 : Digits[d] = c
DigitVal(c) == (CHOOSE d \in 1..10 : Digits[d] = c) - 1

RECURSIVE NatToText(_)
NatToText(n) ==
  IF n < 10 THEN <<Digits[n + 1]>>
  ELSE NatToText(n \div 10) \o <<Digits[(n % 10) + 1]>>

RECURSIVE DigitsToNat(_)
DigitsToNat(s) ==
  IF s = <<>> THEN 0
  ELSE 10 * DigitsToNat(SubSeq(s, 1, Len(s) - 1)) + DigitVal(s[Len(s)])

\* a canonical array index ("0", "7", "12"; not "01"): such keys come first,
\* in ascending order, in the own-key order of an object
IsIndexKey(k) ==
  /\ k # <<>>
  /\ \A i \in 1..Len(k) : IsDigit(k[i])
  /\ (Len(k) > 1 => k[1] # "0")

\* Object.keys(v) of a container
Keys(v) ==
  IF v.t = "arr"
    THEN [i \in 1..Len(v.items) |-> NatToText(i - 1)]
         \o [i \in 1..Len(v.props) |-> v.props[i].k]
  ELSE IF v.t = "obj" THEN [i \in 1..Len(v.ents) |-> v.ents[i].k]
  ELSE <<>>

EntGet(ents, k) ==
  IF \E i \in 1..Len(ents) : ents[i].k = k
    THEN ents[CHOOSE i \in 1..Len(ents) : ents[i].k = k].v
  ELSE Undefined

\* v[k]
Get(v, k) ==
  IF v.t = "arr"
    THEN IF IsIndexKey(k) /\ DigitsToNat(k) < Len(v.items)
           THEN v.items[DigitsToNat(k) + 1]
         ELSE EntGet(v.props, k)
  ELSE IF v.t = "obj" THEN EntGet(v.ents, k)
  ELSE Undefined

EntHas(ents, k) == \E i \in 1..Len(ents) : ents[i].k = k
\* k in v (own properties)
HasKey(v, k) == \E i \in 1..Len(Keys(v)) : Keys(v)[i] = k

\* ents[k] = val: an own key keeps its place; a new index key goes among
\* the index keys in ascending order, any other new key goes last
EntSet(ents, k, val) ==
  IF EntHas(ents, k)
    THEN [i \in 1..Len(ents) |->
            IF ents[i].k = k THEN Ent(k, val) ELSE ents[i]]
  ELSE IF IsIndexKey(k)
    THEN LET before == {i \in 1..Len(ents) :
                          IsIndexKey(ents[i].k)
                          /\ DigitsToNat(ents[i].k) < DigitsToNat(k)}
             n == Cardinality(before)
         IN SubSeq(ents, 1, n) \o <<Ent(k, val)>>
            \o SubSeq(ents, n + 1, Len(ents))
  ELSE Append(ents, Ent(k, val))

\* v[k] = val on a container (an array takes a non-index key as a named
\* property and an index key as an item)
SetKey(v, k, val) ==
  IF v.t = "obj" THEN Obj(EntSet(v.ents, k, val))
  ELSE IF IsIndexKey(k) /\ DigitsToNat(k) < Len(v.items)
    THEN ArrP([v.items EXCEPT ![DigitsToNat(k) + 1] = val], v.props)
  ELSE ArrP(v.items, EntSet(v.props, k, val))

\* Object.entries(v)
Entries(v) == [i \in 1..Len(Keys(v)) |-> Ent(Keys(v)[i], Get(v, Keys(v)[i]))]

\* a plausible slip: the result starts empty instead of as a copy
SpreadNothing(v) == EmptyObj
\* a plausible slip: the result is the argument itself, array or object
SpreadAlias(v) == v
\* { ...v }: a fresh plain object holding v's own properties
Spread(v) == Obj(Entries(v))

(***************************************************************************)
(* deepEqual                                                               *)
(***************************************************************************)
RECURSIVE deepEqual(_, _)
deepEqual(a, b) ==
  IF StrictEq(a, b) THEN TRUE
  ELSE IF a.t \in {"null", "undef"} \/ b.t \in {"null", "undef"} THEN FALSE
  ELSE IF Typeof(a) # Typeof(b) THEN FALSE
  ELSE IF IsArray(a) /\ IsArray(b)
    THEN /\ Len(a.items) = Len(b.items)
         /\ \A i \in 1..Len(a.items) : deepEqual(a.items[i], b.items[i])
  ELSE IF TypeofObject(a) /\ TypeofObject(b)
    THEN LET keysA == Keys(a)
             keysB == Keys(b)
         IN /\ Len(keysA) = Len(keysB)
            /\ \A i \in 1..Len(keysA) :
                 deepEqual(Get(a, keysA[i]), Get(b, keysA[i]))
  ELSE FALSE

(***************************************************************************)
(* deduplicateArrays                                                       *)
(***************************************************************************)
\* result.some((existingItem) => deepEqual(item, existingItem))
isDuplicate(item, result) ==
  \E j \in 1..Len(result) : deepEqual(item, result[j])

\* the for loop over update: acc carries result and dedup
RECURSIVE deduplicateLoop(_, _, _)
deduplicateLoop(update, i, acc) ==
  IF i > Len(update) THEN acc
  ELSE IF ~isDuplicate(update[i], acc.result)
    THEN deduplicateLoop(update, i + 1,
           [result |-> Append(acc.result, update[i]),
            dedup |-> Append(acc.dedup, update[i])])
  ELSE deduplicateLoop(update, i + 1, acc)

\* returns { result, deduped }; a non-array argument counts as []
deduplicateArrays(existing, update) ==
  LET e == IF IsArray(existing) THEN existing.items ELSE <<>>
      u == IF IsArray(update) THEN update.items ELSE <<>>
      acc == deduplicateLoop(u, 1, [result |-> e, dedup |-> <<>>])
  IN [result |-> Arr(acc.result), deduped |-> Len(acc.dedup)]

(***************************************************************************)
(* mergeObjects                                                            *)
(***************************************************************************)
RECURSIVE mergeObjects(_, _)
RECURSIVE mergeObjectsLoop(_, _, _)

\* a plausible slip: a shallow merge, Object.assign({}, existing, update)
RECURSIVE assignLoop(_, _, _)
assignLoop(result, ups, i) ==
  IF i > Len(ups) THEN result
  ELSE assignLoop(SetKey(result, ups[i].k, ups[i].v), ups, i + 1)
assignObjects(existing, update) ==
  assignLoop(Obj(Entries(existing)), Entries(update), 1)

\* a plausible slip: the update's value is written over the existing one
overwriteExisting(result, key, value) == SetKey(result, key, value)
\* "Otherwise keep existing value (don't overwrite)": no assignment is made
keepExisting(result, key, value) == result

\* the for loop over Object.entries(update)
mergeObjectsLoop(result, ups, i) ==
  IF i > Len(ups) THEN result
  ELSE
    LET key == ups[i].k
        value == ups[i].v
        cur == Get(result, key)
    IN IF HasKey(result, key)
         THEN IF /\ TypeofObject(cur) /\ ~IsArray(cur)
                 /\ TypeofObject(value) /\ ~IsArray(value)
                THEN mergeObjectsLoop(
                       SetKey(result, key, mergeObjects(cur, value)), ups, i + 1)
              ELSE IF IsArray(cur) /\ IsArray(value)
                THEN mergeObjectsLoop(
                       SetKey(result, key, deduplicateArrays(cur, value).result),
                       ups, i + 1)
              ELSE mergeObjectsLoop(keepExisting(result, key, value), ups, i + 1)
       ELSE mergeObjectsLoop(SetKey(result, key, value), ups, i + 1)

mergeObjects(existing, update) ==
  IF ~Truthy(existing) \/ ~TypeofObject(existing) \/ IsArray(existing)
    THEN (IF Truthy(update) THEN update ELSE EmptyObj)
  ELSE IF ~Truthy(update) \/ ~TypeofObject(update) \/ IsArray(update)
    THEN existing
  ELSE mergeObjectsLoop(Spread(existing), Entries(update), 1)

(***************************************************************************)
(* Object identity in mergeObjects.  A container of the result is either   *)
(* built by the call or is the very object found in existing or in update: *)
(* { ...existing } and [...existing] copy references, result[key] = value  *)
(* stores one, return existing hands one back.  A share says that the      *)
(* container at path at of the result is the object at path from of the    *)
(* argument of.                                                            *)
(***************************************************************************)
RECURSIVE ContainerPaths(_)
\* the paths of the containers in v, v itself (the empty path) included
ContainerPaths(v) ==
  IF v.t \notin {"arr", "obj"} THEN {}
  ELSE {<<>>} \cup
       UNION {{<<Keys(v)[i]>> \o p : p \in ContainerPaths(Get(v, Keys(v)[i]))} :
                i \in 1..Len(Keys(v))}

\* v is stored or returned as it is: all its containers are shared
wholeOf(v, of) ==
  {[at |-> p, of |-> of, from |-> p] : p \in ContainerPaths(v)}

\* the shares of a value stored under atKey, found under fromKey
Shift(shares, atKey, fromKey) ==
  {[at |-> <<atKey>> \o s.at, of |-> s.of, from |-> <<fromKey>> \o s.from] :
     s \in shares}

\* the for loop of deduplicateArrays: the indices of the update items pushed
RECURSIVE pushedItems(_, _, _, _)
pushedItems(update, i, result, pushed) ==
  IF i > Len(update) THEN pushed
  ELSE IF ~isDuplicate(update[i], result)
    THEN pushedItems(update, i + 1, Append(result, update[i]),
                     Append(pushed, i))
  ELSE pushedItems(update, i + 1, result, pushed)

pushedShares(existing, update, pushed) ==
  UNION {Shift(wholeOf(update[pushed[n]], "update"),
               NatToText(Len(existing) + n - 1), NatToText(pushed[n] - 1)) :
           n \in 1..Len(pushed)}

\* const result = [...existing] and the items pushed onto it
deduplicateShares(existing, update) ==
  UNION {Shift(wholeOf(existing[i], "existing"),
               NatToText(i - 1), NatToText(i - 1)) : i \in 1..Len(existing)}
    \cup pushedShares(existing, update, pushedItems(update, 1, existing, <<>>))

RECURSIVE mergeObjectsShares(_, _)

\* what the loop of mergeObjects leaves under one key
keyShares(inExisting, cur, inUpdate, value) ==
  IF ~inUpdate THEN wholeOf(cur, "existing")
  ELSE IF ~inExisting THEN wholeOf(value, "update")
  ELSE IF /\ TypeofObject(cur) /\ ~IsArray(cur)
          /\ TypeofObject(value) /\ ~IsArray(value)
    THEN mergeObjectsShares(cur, value)
  ELSE IF IsArray(cur) /\ IsArray(value)
    THEN deduplicateShares(cur.items, value.items)
  ELSE wholeOf(cur, "existing")

\* the shares of mergeObjects(existing, update)
mergeObjectsShares(existing, update) ==
  IF ~Truthy(existing) \/ ~TypeofObject(existing) \/ IsArray(existing)
    THEN (IF Truthy(update) THEN wholeOf(update, "update") ELSE {})
  ELSE IF ~Truthy(update) \/ ~TypeofObject(update) \/ IsArray(update)
    THEN wholeOf(existing, "existing")
  ELSE UNION {Shift(keyShares(HasKey(existing, k), Get(existing, k),
                              HasKey(update, k), Get(update, k)), k, k) :
                k \in {Keys(existing)[i] : i \in 1..Len(Keys(existing))}
                      \cup {Keys(update)[i] : i \in 1..Len(Keys(update))}}

\* node[key] = val on the container at path of v
RECURSIVE SetAt(_, _, _, _)
SetAt(v, path, key, val) ==
  IF path = <<>> THEN SetKey(v, key, val)
  ELSE SetKey(v, path[1], SetAt(Get(v, path[1]), Tail(path), key, val))

\* the argument of after node[key] = val is done on the container at path
\* at of the result
writtenThrough(arg, of, shares, at, key, val) ==
  IF \E s \in shares : s.at = at /\ s.of = of
    THEN SetAt(arg, (CHOOSE s \in shares : s.at = at /\ s.of = of).from,
               key, val)
  ELSE arg

(***************************************************************************)
(* MergeChangelog                                                          *)
(***************************************************************************)
NewChangelog ==
  [added |-> <<>>, deduplicated |-> <<>>, preserved |-> <<>>,
   merged |-> <<>>, errors |-> <<>>]

\* items is an array value
recordAdded(changelog, section, items) ==
  [changelog EXCEPT !.added =
     Append(@, [section |-> section,
                items |-> IF Len(items.items) > 0 THEN items ELSE Null])]

recordDeduplicated(changelog, section, count) ==
  IF count > 0
    THEN [changelog EXCEPT !.deduplicated =
            Append(@, [section |-> section, count |-> count])]
  ELSE changelog

recordMerged(changelog, section, keys) ==
  [changelog EXCEPT !.merged = Append(@, [section |-> section, keys |-> keys])]

ChangelogIsEmpty(changelog) ==
  /\ changelog.added = <<>>
  /\ changelog.deduplicated = <<>>
  /\ changelog.preserved = <<>>
  /\ changelog.merged = <<>>
  /\ changelog.errors = <<>>

(***************************************************************************)
(* mergeObjectsWithChangelog: returns the merged object and the changelog  *)
(* as the calls have left it.                                              *)
(***************************************************************************)
RECURSIVE mergeObjectsWithChangelog(_, _, _)
RECURSIVE mergeWithChangelogLoop(_, _, _, _)

\* a plausible slip: the existing value is kept, as mergeObjects keeps it
keepExistingValue(result, key, updateValue) == result
\* "Values differ - update to new value": result[key] = updateValue
applyUpdateValue(result, key, updateValue) == SetKey(result, key, updateValue)

\* the for loop over Object.entries(update)
mergeWithChangelogLoop(result, ups, i, changelog) ==
  IF i > Len(ups) THEN [data |-> result, changelog |-> changelog]
  ELSE
    LET key == ups[i].k
        updateValue == ups[i].v
        existingValue == Get(result, key)
    IN IF HasKey(result, key)
         THEN IF IsArray(existingValue) /\ IsArray(updateValue)
                THEN LET d == deduplicateArrays(existingValue, updateValue)
                     IN mergeWithChangelogLoop(
                          SetKey(result, key, d.result), ups, i + 1,
                          IF d.deduped > 0
                            THEN recordDeduplicated(changelog, key, d.deduped)
                          ELSE changelog)
              ELSE IF /\ TypeofObject(existingValue)
                      /\ existingValue.t # "null"
                      /\ ~IsArray(existingValue)
                      /\ TypeofObject(updateValue)
                      /\ updateValue.t # "null"
                      /\ ~IsArray(updateValue)
                THEN LET r == mergeObjectsWithChangelog(
                                existingValue, updateValue, changelog)
                     IN mergeWithChangelogLoop(
                          SetKey(result, key, r.data), ups, i + 1, r.changelog)
              ELSE IF ~StrictEq(existingValue, updateValue)
                THEN mergeWithChangelogLoop(
                       applyUpdateValue(result, key, updateValue), ups, i + 1,
                       changelog)
              ELSE mergeWithChangelogLoop(result, ups, i + 1, changelog)
       ELSE mergeWithChangelogLoop(
              SetKey(result, key, updateValue), ups, i + 1,
              IF IsArray(updateValue)
                THEN recordAdded(changelog, key, updateValue)
              ELSE IF TypeofObject(updateValue)
                THEN recordAdded(changelog, key, EmptyArr)
              ELSE changelog)

mergeObjectsWithChangelog(existing, update, changelog) ==
  mergeWithChangelogLoop(Spread(existing), Entries(update), 1, changelog)

(***************************************************************************)
(* Text: a sequence of one-character strings.  The characters of the model *)
(* are those of Alphabet, listed by ascending code unit, which is the      *)
(* order Array.prototype.sort() puts keys in.  None of them is a tab, a    *)
(* carriage return or another blank, so a blank is " " or "\n".            *)
(***************************************************************************)
Alphabet ==
  <<"\n", " ", "\"", "#", "'", ",", "-", ".",
    "0", "1", "2", "3", "4", "5", "6", "7", "8", "9", ":",
    "O", "[", "\\", "]",
    "a", "b", "c", "d", "e", "f", "g", "h", "i", "j", "k", "l", "m",
    "n", "o", "p", "q", "r", "s", "t", "u", "v", "w", "x", "y", "z",
    "{", "}", "~">>
CharCode(c) == CHOOSE i \in 1..Len(Alphabet) : Alphabet[i] = c

IsBlank(c) == c \in {" ", "\n"}

RECURSIVE trimStart(_)
trimStart(s) ==
  IF s # <<>> /\ IsBlank(s[1]) THEN trimStart(Tail(s)) ELSE s

RECURSIVE trimEnd(_)
trimEnd(s) ==
  IF s # <<>> /\ IsBlank(s[Len(s)])
    THEN trimEnd(SubSeq(s, 1, Len(s) - 1))
  ELSE s

trim(s) == trimEnd(trimStart(s))

startsWith(s, p) == Len(s) >= Len(p) /\ SubSeq(s, 1, Len(p)) = p
endsWith(s, p) ==
  Len(s) >= Len(p) /\ SubSeq(s, Len(s) - Len(p) + 1, Len(s)) = p
\* s.includes(c) for a one-character c
includes(s, c) == \E i \in 1..Len(s) : s[i] = c
\* s.indexOf(c), 0-based, for a character s holds
indexOf(s, c) ==
  (CHOOSE i \in 1..Len(s) : s[i] = c /\ \A j \in 1..(i - 1) : s[j] # c) - 1
\* s.substring(from), 0-based
substring(s, from) == SubSeq(s, from + 1, Len(s))
\* s.slice(1, -1)
sliceInner(s) == SubSeq(s, 2, Len(s) - 1)

\* s.split(c): the pieces between the occurrences of the character c
RECURSIVE split(_, _)
split(s, c) ==
  IF ~includes(s, c) THEN <<s>>
  ELSE LET n == indexOf(s, c)
       IN <<SubSeq(s, 1, n)>> \o split(substring(s, n + 1), c)

\* parts.join(sep)
RECURSIVE join(_, _)
join(parts, sep) ==
  IF parts = <<>> THEN <<>>
  ELSE IF Len(parts) = 1 THEN parts[1]
  ELSE parts[1] \o sep \o join(Tail(parts), sep)

\* ' '.repeat(n)
spaces(n) == [i \in 1..n |-> " "]

\* a < b by code units, as the default sort compares two keys
RECURSIVE TextLess(_, _)
TextLess(a, b) ==
  IF b = <<>> THEN FALSE
  ELSE IF a = <<>> THEN TRUE
  ELSE IF a[1] # b[1] THEN CharCode(a[1]) < CharCode(b[1])
  ELSE TextLess(Tail(a), Tail(b))

\* keys.sort(): insertion into an ascending sequence
RECURSIVE sortKeys(_)
sortKeys(keys) ==
  IF keys = <<>> THEN <<>>
  ELSE LET rest == sortKeys(Tail(keys))
           n == Cardinality({i \in 1..Len(rest) : TextLess(rest[i], keys[1])})
       IN SubSeq(rest, 1, n) \o <<keys[1]>> \o SubSeq(rest, n + 1, Len(rest))

(***************************************************************************)
(* parseYAMLValue.  Number(str) is modelled on the texts of the model:     *)
(* an optional sign and decimal digits.  The texts the model parses hold   *)
(* no exponent, no 0x / 0o / 0b prefix and no "Infinity".                  *)
(***************************************************************************)
AllDigits(s) == s # <<>> /\ \A i \in 1..Len(s) : IsDigit(s[i])

\* !isNaN(Number(str)) for a trimmed, non-empty str without "."
IsNumberText(str) ==
  \/ AllDigits(str)
  \/ Len(str) > 1 /\ str[1] \in {"-", "+"} /\ AllDigits(Tail(str))

NumberOf(str) ==
  IF str[1] = "-" THEN 0 - DigitsToNat(Tail(str))
  ELSE IF str[1] = "+" THEN DigitsToNat(Tail(str))
  ELSE DigitsToNat(str)

\* str.split('.').length === 2 && every part matches /^\d+$/
IsVersionText(str) ==
  /\ includes(str, ".")
  /\ Len(split(str, ".")) = 2
  /\ \A i \in 1..2 : AllDigits(split(str, ".")[i])

parseYAMLValue(raw) ==
  IF raw = <<>> THEN Null
  ELSE LET str == trim(raw)
       IN IF str = <<"n", "u", "l", "l">> \/ str = <<"~">> THEN Null
          ELSE IF str = <<"t", "r", "u", "e">> THEN Bool(TRUE)
          ELSE IF str = <<"f", "a", "l", "s", "e">> THEN Bool(FALSE)
          ELSE IF str = <<"[", "]">> THEN EmptyArr
          ELSE IF str = <<"{", "}">> THEN EmptyObj
          ELSE IF startsWith(str, <<"\"">>) /\ endsWith(str, <<"\"">>)
            THEN Str(sliceInner(str))
          ELSE IF startsWith(str, <<"'">>) /\ endsWith(str, <<"'">>)
            THEN Str(sliceInner(str))
          ELSE IF IsVersionText(str) THEN Str(str)
          ELSE IF str # <<>> /\ ~includes(str, ".") /\ IsNumberText(str)
            THEN Num(NumberOf(str))
          ELSE Str(str)

(***************************************************************************)
(* parseYAMLLines.  The while loop is parseLoop; its locals are the fields *)
(* of st: result (the own properties of the object being built), items,    *)
(* i (0-based, as in the code), isArray and cur, which says that           *)
(* currentArrayItem is set: it is then the last item pushed.  The field    *)
(* deep is no local of the code: it is the number of parseYAMLLines calls  *)
(* nested below this one, which is what the call stack has to hold.        *)
(***************************************************************************)
Max(a, b) == IF a >= b THEN a ELSE b

indentOf(line) == Len(line) - Len(trimStart(line))

\* lines[i] of the code
lineAt(lines, i) == lines[i + 1]

\* the test the code makes on the line after a "key:" line
nextIsNested(lines, i, indent) ==
  /\ i + 1 < Len(lines)
  /\ indentOf(lineAt(lines, i + 1)) > indent
  /\ ~startsWith(trim(lineAt(lines, i + 1)), <<"#">>)
  /\ trim(lineAt(lines, i + 1)) # <<>>

\* the test the code makes on the line after a "- item" line
nextIsNestedObject(lines, i, indent) ==
  /\ nextIsNested(lines, i, indent)
  /\ includes(trim(lineAt(lines, i + 1)), ":")
  /\ ~startsWith(trim(lineAt(lines, i + 1)), <<"-">>)

RECURSIVE parseYAMLLines(_, _, _, _)
RECURSIVE parseLoop(_, _, _)

parseLoop(lines, expectedIndent, st) ==
  IF ~(st.i < Len(lines)) THEN st
  ELSE
    LET i == st.i
        line == lineAt(lines, i)
        trimmed == trim(line)
        indent == indentOf(line)
        step == [st EXCEPT !.i = i + 1]
    IN
    IF trimmed = <<>> \/ startsWith(trimmed, <<"#">>)
      THEN parseLoop(lines, expectedIndent, step)
    ELSE IF indent < expectedIndent THEN st
    ELSE IF indent > expectedIndent
      THEN parseLoop(lines, expectedIndent, step)
    ELSE IF startsWith(trimmed, <<"-", " ">>)
      THEN
        LET itemValue == trim(substring(trimmed, 2))
        IN IF nextIsNestedObject(lines, i, indent)
             THEN
               LET nextIndent == indentOf(lineAt(lines, i + 1))
                   nested == parseYAMLLines(lines, i + 1, nextIndent, FALSE)
                   parts == split(itemValue, ":")
                   data ==
                     IF itemValue # <<>>
                       THEN SetKey(nested.data, trim(parts[1]),
                              parseYAMLValue(trim(join(Tail(parts), <<":">>))))
                     ELSE nested.data
               IN parseLoop(lines, expectedIndent,
                    [st EXCEPT !.isArray = TRUE,
                               !.items = Append(@, data),
                               !.cur = TRUE,
                               !.i = nested.i,
                               !.deep = Max(@, nested.deep)])
           ELSE IF itemValue # <<>>
             THEN parseLoop(lines, expectedIndent,
                    [st EXCEPT !.isArray = TRUE,
                               !.items = Append(@, parseYAMLValue(itemValue)),
                               !.cur = FALSE,
                               !.i = i + 1])
           ELSE parseLoop(lines, expectedIndent,
                  [st EXCEPT !.isArray = TRUE, !.i = i + 1])
    ELSE IF includes(trimmed, ":")
      THEN
        LET colonIdx == indexOf(trimmed, ":")
            key == trim(SubSeq(trimmed, 1, colonIdx))
            valueStr == trim(substring(trimmed, colonIdx + 1))
            opens == valueStr = <<>> /\ nextIsNested(lines, i, indent)
            nextLine == lineAt(lines, i + 1)
            nested == parseYAMLLines(lines, i + 1, indentOf(nextLine),
                        startsWith(trim(nextLine), <<"-">>))
            val == IF opens THEN nested.data
                   ELSE IF valueStr = <<>> THEN Null
                   ELSE parseYAMLValue(valueStr)
            nextI == IF opens THEN nested.i ELSE i + 1
            deep == IF opens THEN Max(st.deep, nested.deep) ELSE st.deep
        IN IF st.cur /\ IsMapping(st.items[Len(st.items)])
             THEN parseLoop(lines, expectedIndent,
                    [st EXCEPT !.items[Len(st.items)] = SetKey(@, key, val),
                               !.i = nextI, !.deep = deep])
           ELSE parseLoop(lines, expectedIndent,
                  [st EXCEPT !.result = EntSet(@, key, val), !.i = nextI,
                             !.deep = deep])
    ELSE parseLoop(lines, expectedIndent, step)

parseYAMLLines(lines, startIdx, expectedIndent, parentIsArray) ==
  LET st == parseLoop(lines, expectedIndent,
              [result |-> <<>>, items |-> <<>>, i |-> startIdx,
               isArray |-> parentIsArray, cur |-> FALSE, deep |-> 0])
  IN [data |-> IF st.isArray /\ Len(st.items) > 0
                 THEN Arr(st.items) ELSE Obj(st.result),
      i |-> st.i,
      deep |-> 1 + st.deep]

\* parseYAML(content) for a value content: { data, raw } and, had the
\* parser thrown, parseError.  No statement of parseYAMLLines throws on a
\* text; the parser fails only when the call stack cannot hold its nested
\* calls (see parseYAMLWithin).  This is the call made with stack to spare.
parseYAML(content) ==
  IF ~Truthy(content) \/ content.t # "str"
    THEN [data |-> EmptyObj, parseError |-> FALSE]
  ELSE [data |-> parseYAMLLines(split(content.s, "\n"), 0, 0, FALSE).data,
        parseError |-> FALSE]

(***************************************************************************)
(* serializeYAMLValue and serializeYAML                                    *)
(***************************************************************************)
\* String(n) of an integer
NumberText(n) == IF n < 0 THEN <<"-">> \o NatToText(0 - n) ELSE NatToText(n)

\* value.replace(/"/g, '\\"')
RECURSIVE escapeQuotes(_)
escapeQuotes(s) ==
  IF s = <<>> THEN <<>>
  ELSE (IF s[1] = "\"" THEN <<"\\", "\"">> ELSE <<s[1]>>)
       \o escapeQuotes(Tail(s))

\* String(value): an array joins the texts of its items with ",", null and
\* undefined items giving the empty text; a plain object gives
\* "[object Object]"
RECURSIVE StringOf(_)
StringOf(value) ==
  CASE value.t \in {"null"} -> <<"n", "u", "l", "l">>
    [] value.t = "undef" -> <<"u", "n", "d", "e", "f", "i", "n", "e", "d">>
    [] value.t = "bool" -> (IF value.b THEN <<"t", "r", "u", "e">> ELSE <<"f", "a", "l", "s", "e">>)
    [] value.t = "num" -> NumberText(value.n)
    [] value.t = "str" -> value.s
    [] value.t = "arr" ->
         join([i \in 1..Len(value.items) |->
                 IF value.items[i].t \in {"null", "undef"} THEN <<>>
                 ELSE StringOf(value.items[i])], <<",">>)
    [] OTHER -> <<"[", "o", "b", "j", "e", "c", "t", " ", "O", "b", "j", "e", "c", "t", "]">>

serializeYAMLValue(value) ==
  IF value.t \in {"null", "undef"} THEN <<"n", "u", "l", "l">>
  ELSE IF value.t = "bool" THEN (IF value.b THEN <<"t", "r", "u", "e">> ELSE <<"f", "a", "l", "s", "e">>)
  ELSE IF value.t = "num" THEN NumberText(value.n)
  ELSE IF value.t = "str"
    THEN IF includes(value.s, ":") \/ includes(value.s, "#")
            \/ includes(value.s, "\"")
           THEN <<"\"">> \o escapeQuotes(value.s) \o <<"\"">>
         ELSE value.s
  ELSE StringOf(value)

\* the concatenation of a sequence of sequences
RECURSIVE Flatten(_)
Flatten(ss) == IF ss = <<>> THEN <<>> ELSE ss[1] \o Flatten(Tail(ss))

RECURSIVE serializeYAML(_, _)

\* the line pushed for one item of an array being serialized
serializeArrayItem(item, indent) ==
  IF IsMapping(item)
    THEN IF Len(Keys(item)) = 1
           THEN spaces(indent) \o <<"-", " ">> \o Keys(item)[1] \o <<":", " ">>
                \o serializeYAMLValue(Get(item, Keys(item)[1]))
         ELSE spaces(indent) \o <<"-", " ">>
              \o trim(serializeYAML(item, indent + 2))
  ELSE IF IsArray(item)
    THEN spaces(indent) \o <<"-", "\n">> \o serializeYAML(item, indent + 2)
  ELSE spaces(indent) \o <<"-", " ">> \o serializeYAMLValue(item)

\* the lines pushed for one key of an object being serialized
serializeKey(key, value, indent) ==
  LET nextIndentStr == spaces(indent + 2)
  IN IF value.t \in {"null", "undef"}
       THEN <<nextIndentStr \o key \o <<":", " ", "n", "u", "l", "l">>>>
     ELSE IF IsArray(value)
       THEN <<nextIndentStr \o key \o <<":">>>>
            \o [i \in 1..Len(value.items) |->
                  IF TypeofObject(value.items[i]) /\ value.items[i].t # "null"
                    THEN nextIndentStr \o <<" ", " ", "-", " ">>
                         \o trim(serializeYAML(value.items[i], indent + 4))
                  ELSE nextIndentStr \o <<" ", " ", "-", " ">>
                       \o serializeYAMLValue(value.items[i])]
     ELSE IF TypeofObject(value)
       THEN <<nextIndentStr \o key \o <<":">>,
              serializeYAML(value, indent + 4)>>
     ELSE <<nextIndentStr \o key \o <<":", " ">> \o serializeYAMLValue(value)>>

serializeYAML(obj, indent) ==
  IF obj.t \in {"null", "undef"} THEN <<>>
  ELSE IF IsArray(obj)
    THEN join([i \in 1..Len(obj.items) |->
                 serializeArrayItem(obj.items[i], indent)], <<"\n">>)
  ELSE IF TypeofObject(obj)
    THEN LET keys == sortKeys(Keys(obj))
         IN join(Flatten([i \in 1..Len(keys) |->
                            serializeKey(keys[i], Get(obj, keys[i]), indent)]),
                 <<"\n">>)
  ELSE <<>>

(***************************************************************************)
(* MergeResult: success, data, errors, warnings, changelog.                *)
(***************************************************************************)
NewMergeResult ==
  [success |-> TRUE, data |-> EmptyObj, errors |-> <<>>, warnings |-> <<>>,
   changelog |-> NewChangelog]

\* the lines MergeResult.toYAML pushes for one entry of data
toYAMLEntry(key, value) ==
  IF value.t \in {"null", "undef"}
    THEN <<key \o <<":", " ", "n", "u", "l", "l">>>>
  ELSE IF IsArray(value)
    THEN <<key \o <<":">>>>
         \o [i \in 1..Len(value.items) |->
               IF TypeofObject(value.items[i]) /\ value.items[i].t # "null"
                 THEN <<" ", " ", "-", " ">>
                      \o trim(serializeYAML(value.items[i], 2))
               ELSE <<" ", " ", "-", " ">>
                    \o serializeYAMLValue(value.items[i])]
  ELSE IF TypeofObject(value)
    THEN <<key \o <<":">>, serializeYAML(value, 2)>>
  ELSE <<key \o <<":", " ">> \o serializeYAMLValue(value)>>

\* the text MergeResult.toYAML() returns for data.  No call it makes can
\* throw on the values of the model, so its catch branch, the only place
\* where it writes to errors and success, is never taken.
toYAML(data) ==
  IF ~Truthy(data) \/ ~TypeofObject(data) THEN <<>>
  ELSE LET ents == Entries(data)
       IN join(Flatten([i \in 1..Len(ents) |->
                          toYAMLEntry(ents[i].k, ents[i].v)]), <<"\n">>)

\* MergeResult.validate(): the list of errors
validate(result) ==
  IF ~Truthy(result.data) \/ ~TypeofObject(result.data)
    THEN <<"Merged data is not an object">>
  ELSE <<>>

(***************************************************************************)
(* mergeYAML(existing, update): the MergeResult returned.  The arguments   *)
(* are values: a text is Str(text).                                        *)
(***************************************************************************)
\* `parsed || {}`: the data that is merged for one parsed document
orEmptyObject(data) == IF Truthy(data) THEN data ELSE EmptyObj

\* the end of the try block: validate the merged result and record its errors
validateMerged(merged) ==
  LET validationErrors == validate(merged)
  IN IF Len(validationErrors) > 0
       THEN [merged EXCEPT !.errors = @ \o validationErrors,
                           !.success = FALSE]
     ELSE merged

\* the merge step of the try block: data and changelog of the result are
\* what mergeObjectsWithChangelog leaves
mergeData(result, existingData, updateData) ==
  LET m == mergeObjectsWithChangelog(existingData, updateData,
                                     result.changelog)
  IN validateMerged([result EXCEPT !.data = m.data,
                                   !.changelog = m.changelog])

\* a plausible slip: the parse errors are not looked at
mergeIgnoringParseErrors(result, existingParsed, updateParsed) ==
  mergeData(result, orEmptyObject(existingParsed.data),
            orEmptyObject(updateParsed.data))

\* the try block once both documents are parsed
mergeAfterParse(result, existingParsed, updateParsed) ==
  IF existingParsed.parseError
    THEN [result EXCEPT
            !.errors = Append(@, "Existing YAML parse error"),
            !.success = FALSE]
  ELSE IF updateParsed.parseError
    THEN [result EXCEPT
            !.errors = Append(@, "Update YAML parse error"),
            !.success = FALSE]
  ELSE mergeData(result, orEmptyObject(existingParsed.data),
                 orEmptyObject(updateParsed.data))

\* the body of mergeYAML's try block after the two type checks
mergeParsed(existing, update) ==
  mergeAfterParse(NewMergeResult, parseYAML(existing), parseYAML(update))

\* a plausible slip: the arguments are parsed without the type checks
mergeYAMLUnchecked(existing, update) == mergeParsed(existing, update)

mergeYAML(existing, update) ==
  IF existing.t # "str"
    THEN [NewMergeResult EXCEPT
            !.errors = Append(@, "existing parameter must be a string"),
            !.success = FALSE]
  ELSE IF update.t # "str"
    THEN [NewMergeResult EXCEPT
            !.errors = Append(@, "update parameter must be a string"),
            !.success = FALSE]
  ELSE mergeParsed(existing, update)

(***************************************************************************)
(* Calls made with little room left on the call stack.  No statement of    *)
(* the parser or of the serializer throws on the values they are given;    *)
(* what does throw is the engine, a RangeError, when the stack cannot hold *)
(* the nested calls of parseYAMLLines or of serializeYAML.  room is the    *)
(* number of such nested calls the stack can still hold when the exported  *)
(* function is called.  A text that parses within room gives data that is  *)
(* merged and serialized within room, so inside mergeYAML the parser is    *)
(* the only call that can fail and the catch of mergeYAML is not reached.  *)
(***************************************************************************)
MaxOfSet(S) == IF S = {} THEN 0 ELSE CHOOSE m \in S : \A n \in S : m >= n

\* parseYAMLLines throws inside parseYAML(content)
parseThrows(content, room) ==
  parseYAMLLines(split(content.s, "\n"), 0, 0, FALSE).deep > room

\* a plausible slip: parseYAML without its try/catch
parseUncaught(content) ==
  [data |-> EmptyObj, parseError |-> FALSE, raised |-> TRUE]
\* the catch of parseYAML: { data: {}, parseError: error.message }
parseCaught(content) ==
  [data |-> EmptyObj, parseError |-> TRUE, raised |-> FALSE]

\* parseYAML(content) called with room on the stack; raised says that the
\* call threw to its caller
parseYAMLWithin(content, room) ==
  IF ~Truthy(content) \/ content.t # "str"
    THEN [data |-> EmptyObj, parseError |-> FALSE, raised |-> FALSE]
  ELSE IF parseThrows(content, room) THEN parseCaught(content)
  ELSE [data |-> parseYAML(content).data, parseError |-> FALSE,
        raised |-> FALSE]

\* validateYAML(content): { valid, errors }; its catch is reached when
\* parseYAML throws to it
validateYAML(content, room) ==
  IF ~Truthy(content) \/ content.t # "str"
    THEN [valid |-> TRUE, errors |-> <<>>]
  ELSE IF parseYAMLWithin(content, room).raised
    THEN [valid |-> FALSE, errors |-> <<"parse error">>]
  ELSE [valid |-> TRUE, errors |-> <<>>]

\* the number of nested serializeYAML calls that serializeYAML(obj, _)
\* makes, itself included; and the number made for a value under a key
RECURSIVE serializeNesting(_)
RECURSIVE valueNesting(_)

valueNesting(value) ==
  IF value.t \in {"null", "undef"} THEN 0
  ELSE IF IsArray(value)
    THEN MaxOfSet({IF TypeofObject(value.items[i])
                        /\ value.items[i].t # "null"
                     THEN serializeNesting(value.items[i])
                   ELSE 0 : i \in 1..Len(value.items)})
  ELSE IF TypeofObject(value) THEN serializeNesting(value)
  ELSE 0

serializeNesting(obj) ==
  IF obj.t \in {"null", "undef"} THEN 1
  ELSE IF IsArray(obj)
    THEN 1 + MaxOfSet({IF IsMapping(obj.items[i])
                         THEN IF Len(Keys(obj.items[i])) = 1 THEN 0
                              ELSE serializeNesting(obj.items[i])
                       ELSE IF IsArray(obj.items[i])
                         THEN serializeNesting(obj.items[i])
                       ELSE 0 : i \in 1..Len(obj.items)})
  ELSE IF TypeofObject(obj)
    THEN 1 + MaxOfSet({valueNesting(Get(obj, Keys(obj)[i])) :
                         i \in 1..Len(Keys(obj))})
  ELSE 1

\* serializeYAML throws inside result.toYAML()
toYAMLThrows(result, room) ==
  /\ Truthy(result.data)
  /\ TypeofObject(result.data)
  /\ MaxOfSet({valueNesting(Entries(result.data)[i].v) :
                 i \in 1..Len(Entries(result.data))}) > room

\* a plausible slip: the catch of toYAML also empties the data
serializationFailedDropData(result) ==
  [result EXCEPT !.errors = Append(@, "Serialization error"),
                 !.success = FALSE,
                 !.data = EmptyObj]
\* a plausible slip: the catch of toYAML records the error only
serializationFailedKeepSuccess(result) ==
  [result EXCEPT !.errors = Append(@, "Serialization error")]
\* the writes of the catch of toYAML
serializationFailed(result) ==
  [result EXCEPT !.errors = Append(@, "Serialization error"),
                 !.success = FALSE]

\* a plausible slip: toYAML without its try/catch
toYAMLUncaught(result) ==
  [text |-> <<>>, result |-> result, raised |-> TRUE]
\* the catch of toYAML: the error is recorded and '' is returned
toYAMLCaught(result) ==
  [text |-> <<>>, result |-> serializationFailed(result), raised |-> FALSE]

\* result.toYAML() called with room on the stack: the text returned and
\* the result as the call leaves it
toYAMLWithin(result, room) ==
  IF toYAMLThrows(result, room) THEN toYAMLCaught(result)
  ELSE [text |-> toYAML(result.data), result |-> result, raised |-> FALSE]

\* the second half of validate(): this.toYAML() inside try/catch
validateSerialization(errors, t) ==
  [errors |-> IF t.raised THEN Append(errors, "Invalid YAML output")
              ELSE errors,
   result |-> t.result,
   raised |-> FALSE]

\* result.validate() called with room on the stack: the list returned and
\* the result as the call leaves it
validateWithin(result, room) ==
  validateSerialization(validate(result), toYAMLWithin(result, room))

\* the catch of mergeYAML
mergeFailed(result) ==
  [result EXCEPT !.errors = Append(@, "Merge error"), !.success = FALSE]

\* the try block of mergeYAML once both documents are parsed
mergeParsedWithin(result, existingParsed, updateParsed) ==
  IF existingParsed.raised \/ updateParsed.raised THEN mergeFailed(result)
  ELSE mergeAfterParse(result, existingParsed, updateParsed)

\* mergeYAML(existing, update) called with room on the stack, result being
\* the MergeResult its first statement has constructed
mergeYAMLWithin(result, existing, update, room) ==
  IF existing.t # "str"
    THEN [result EXCEPT
            !.errors = Append(@, "existing parameter must be a string"),
            !.success = FALSE]
  ELSE IF update.t # "str"
    THEN [result EXCEPT
            !.errors = Append(@, "update parameter must be a string"),
            !.success = FALSE]
  ELSE mergeParsedWithin(result, parseYAMLWithin(existing, room),
                         parseYAMLWithin(update, room))

(***************************************************************************)
(* Objects.  Every MergeResult and every MergeChangelog is an object with  *)
(* an identity: its place in results, in logs.  A MergeResult holds the    *)
(* identity of its changelog.                                              *)
(***************************************************************************)
\* a plausible slip: one changelog of the module, shared by the results
sharedChangelog(logs) == 1
\* new MergeChangelog(): the identity of the object constructed
newChangelog(logs) == Len(logs) + 1

\* logs once the object id is constructed
constructChangelog(logs, id) ==
  IF id > Len(logs) THEN Append(logs, NewChangelog) ELSE logs

\* the result object with its changelog object in place of the identity
withChangelog(result, logs) ==
  [result EXCEPT !.changelog = logs[result.changelog]]

\* the result object that holds the value result, its changelog being id
asObject(result, id) == [result EXCEPT !.changelog = id]

(***************************************************************************)
(* State.                                                                  *)
(*   objExisting, objUpdate  the two values handed to an exported helper   *)
(*   objCall                 the helper that has been called ("none" yet;  *)
(*                           "values" when the arguments are two values    *)
(*                           for deepEqual)                                *)
(*   objOut                  what it returned                              *)
(*   yExisting, yUpdate      the two arguments of the next mergeYAML call:  *)
(*                           Str(text), or a value that is no string       *)
(*   yRes                    the MergeResult of the last mergeYAML call    *)
(*   yOut, yPrev             the text of the last toYAML() call, and of    *)
(*                           the one before it                             *)
(*   yRound                  the number of the current update round        *)
(*   yPc                     "start" | "merged" | "written"                *)
(*   cResults, cLogs         the MergeResult and MergeChangelog objects    *)
(*                           constructed so far                            *)
(*   cCalls                  for each result, the arguments and the room   *)
(*                           of the mergeYAML call that returned it, and   *)
(*                           how many toYAML() calls on it have failed     *)
(*   cLast                   the call that returned last                   *)
(*   rText                   a text handed to parseYAML                    *)
(*   rParsed                 the data parseYAML returned for it            *)
(*   rSerialized             the text serializeYAML returned for the data  *)
(*   rReparsed               the data parseYAML returned for that text     *)
(*   rPc                     "text" | "parsed" | "serialized" | "reparsed" *)
(*                           | "edited" | "edit parsed"                    *)
(*   eText                   rText with a blank or comment line inserted   *)
(*   eData                   the data parseYAML returned for eText         *)
(*   sLines                  the lines parseYAMLLines is running on        *)
(*   sStack                  its calls in progress, the innermost last:    *)
(*                           [start, expectedIndent, i]                    *)
(*   sPc                     "run" | "done"                                *)
(*   iEntry                  "install" (the package) | "cli" (bin/cli.js)  *)
(*   iFlags                  the flags given                               *)
(*   iTotal                  total                                         *)
(*   iNext                   the place in the steps list of the next step  *)
(*   iCurrent                current                                       *)
(*   iAttempted              the steps whose command was run, in order     *)
(*   iFailed                 the steps whose command failed                *)
(*   iPc                     "steps" | "done" | "thrown"                   *)
(***************************************************************************)
VARIABLES objExisting, objUpdate, objCall, objOut,
          yExisting, yUpdate, yRes, yOut, yPrev, yRound, yPc,
          cResults, cLogs, cCalls, cLast,
          rText, rParsed, rSerialized, rReparsed, rPc,
          eText, eData, sLines, sStack, sPc,
          iEntry, iFlags, iTotal, iNext, iCurrent, iAttempted, iFailed, iPc

objVars == <<objExisting, objUpdate, objCall, objOut>>
yamlVars == <<yExisting, yUpdate, yRes, yOut, yPrev, yRound, yPc>>
callVars == <<cResults, cLogs, cCalls, cLast>>
roundData == <<rText, rParsed, rSerialized, rReparsed>>
roundVars == <<rText, rParsed, rSerialized, rReparsed, rPc>>
parseVars == <<eText, eData, sLines, sStack, sPc>>
installVars ==
  <<iEntry, iFlags, iTotal, iNext, iCurrent, iAttempted, iFailed, iPc>>
vars == <<objVars, yamlVars, callVars, roundVars, parseVars, installVars>>

\* the variables of the other part of the model, at rest
ObjIdle ==
  /\ objExisting = Null /\ objUpdate = Null
  /\ objCall = "idle" /\ objOut = Null
YamlIdle ==
  /\ yExisting = Null /\ yUpdate = Null /\ yRes = NewMergeResult
  /\ yOut = <<>> /\ yPrev = <<>> /\ yRound = 0 /\ yPc = "idle"
NoCall ==
  [op |-> "none", target |-> 0, arg |-> Null, room |-> 0, raised |-> FALSE,
   text |-> <<>>, errors |-> <<>>, valid |-> TRUE]
InstallIdle ==
  /\ iEntry = "none" /\ iFlags = {} /\ iTotal = 0 /\ iNext = 0
  /\ iCurrent = 0 /\ iAttempted = <<>> /\ iFailed = {} /\ iPc = "idle"

ParseIdle ==
  /\ eText = <<>> /\ eData = Null
  /\ sLines = <<>> /\ sStack = <<>> /\ sPc = "idle"
RoundIdle ==
  /\ rText = Null /\ rParsed = Null /\ rSerialized = <<>>
  /\ rReparsed = Null /\ rPc = "idle"
  /\ ParseIdle
  /\ InstallIdle
CallsIdle ==
  /\ cResults = <<>> /\ cLogs = <<>> /\ cCalls = <<>> /\ cLast = NoCall

(***************************************************************************)
(* Inputs of the exported helpers, drawn from bounded sets of values.      *)
(***************************************************************************)
KeyA == <<"a">>
KeyB == <<"b">>
KeyX == <<"x">>
KeyY == <<"y">>

SeqsUpTo(S, n) == UNION {[1..m -> S] : m \in 0..n}

\* items of the sequences handed to deduplicateArrays
ItemVals ==
  {Null, Num(1), EmptyArr, EmptyObj, Obj(<<Ent(KeyA, Num(1))>>)}
ArrInputs == {Arr(s) : s \in SeqsUpTo(ItemVals, MaxArrLen)}

\* values under the top-level keys of the mappings handed to mergeObjects
FieldVals ==
  {Null, Num(1), Num(2), Arr(<<Num(1)>>), Arr(<<Num(2)>>), EmptyObj,
   Obj(<<Ent(KeyX, Num(1))>>), Obj(<<Ent(KeyX, Num(2))>>),
   Obj(<<Ent(KeyY, Num(2))>>)}
TopKeys == {KeyA, KeyB}
KeySeqs == {ks \in SeqsUpTo(TopKeys, MaxKeys) :
              \A i, j \in 1..Len(ks) : i # j => ks[i] # ks[j]}
ObjInputs ==
  UNION {{Obj([i \in 1..Len(ks) |-> Ent(ks[i], vs[i])]) :
            vs \in [1..Len(ks) -> FieldVals]} : ks \in KeySeqs}
\* "every update value": mappings, and values that are no mapping
UpdateInputs == ObjInputs \cup {Null, Num(1), Arr(<<Num(1)>>)}

\* the values handed to deepEqual: every kind of value, containers empty
\* and not, an array and an object with the same own keys
EqualInputs ==
  {Null, Bool(TRUE), Num(1), Str(<<"1">>), EmptyArr, EmptyObj,
   Arr(<<Num(1)>>), Obj(<<Ent(KeyA, Num(1))>>), Obj(<<Ent(<<"0">>, Num(1))>>),
   Arr(<<EmptyObj>>)}

ObjInit ==
  /\ \/ /\ objExisting \in ArrInputs /\ objUpdate \in ArrInputs
        /\ objCall = "none"
     \/ /\ objExisting \in ObjInputs /\ objUpdate \in UpdateInputs
        /\ objCall = "none"
     \/ /\ objExisting \in EqualInputs /\ objUpdate \in EqualInputs
        /\ objCall = "values"
  /\ objOut = Null
  /\ YamlIdle
  /\ CallsIdle
  /\ RoundIdle

\* deduplicateArrays(objExisting, objUpdate)
CallDeduplicateArrays ==
  /\ objCall = "none"
  /\ objCall' = "deduplicateArrays"
  /\ objOut' = deduplicateArrays(objExisting, objUpdate)
  /\ UNCHANGED <<objExisting, objUpdate, yamlVars, callVars, roundVars, parseVars, installVars>>

\* mergeObjects(objExisting, objUpdate)
CallMergeObjects ==
  /\ objCall = "none"
  /\ objCall' = "mergeObjects"
  /\ objOut' = mergeObjects(objExisting, objUpdate)
  /\ UNCHANGED <<objExisting, objUpdate, yamlVars, callVars, roundVars, parseVars, installVars>>

\* mergeObjectsWithChangelog(objExisting, objUpdate, new MergeChangelog()):
\* mergeYAML hands it two parsed roots, which are objects or arrays
CallMergeObjectsWithChangelog ==
  /\ objCall = "none"
  /\ objExisting.t \in {"arr", "obj"}
  /\ objUpdate.t \in {"arr", "obj"}
  /\ objCall' = "mergeObjectsWithChangelog"
  /\ objOut' = mergeObjectsWithChangelog(objExisting, objUpdate, NewChangelog)
  /\ UNCHANGED <<objExisting, objUpdate, yamlVars, callVars, roundVars, parseVars, installVars>>

\* deepEqual(objExisting, objUpdate)
CallDeepEqual ==
  /\ objCall \in {"none", "values"}
  /\ objCall' = "deepEqual"
  /\ objOut' = Bool(deepEqual(objExisting, objUpdate))
  /\ UNCHANGED <<objExisting, objUpdate, yamlVars, callVars, roundVars, parseVars, installVars>>

\* the property a caller sets on a container of the result
KeyZ == <<"z">>
NewValue == Num(9)

\* the write, and what it does to the arguments through the shares
ChangeAt(at, shares) ==
  /\ objOut' = SetAt(objOut, at, KeyZ, NewValue)
  /\ objExisting' = writtenThrough(objExisting, "existing", shares, at, KeyZ,
                                   NewValue)
  /\ objUpdate' = writtenThrough(objUpdate, "update", shares, at, KeyZ,
                                 NewValue)

\* const result = mergeObjects(existing, update) has returned; the caller
\* sets a property on a container of the result: node.z = 9
ChangeResult ==
  /\ objCall = "mergeObjects"
  /\ \E at \in ContainerPaths(objOut) :
       ChangeAt(at, mergeObjectsShares(objExisting, objUpdate))
  /\ objCall' = "changed"
  /\ UNCHANGED <<yamlVars, callVars, roundVars, parseVars, installVars>>

ObjNext ==
  \/ ChangeResult
  \/ CallDeepEqual
  \/ CallDeduplicateArrays
  \/ CallMergeObjects
  \/ CallMergeObjectsWithChangelog

SpecObj == ObjInit /\ [][ObjNext]_vars

(***************************************************************************)
(* Documents handed to mergeYAML: up to MaxFragments of the fragments      *)
(* below, joined by line breaks.  A fragment is a line or a key with its   *)
(* indented block.                                                         *)
(*   a: 1 | a: 2 | m: + k: 1 | m: + j: 2 | m: | x: + - 1 | x: + - "1" | - 1 *)
(* The update of a round is a document of up to MaxUpdateFragments of them. *)
(***************************************************************************)
FragScalarOne == <<"a", ":", " ", "1">>
FragScalarTwo == <<"a", ":", " ", "2">>
FragNested == <<"m", ":", "\n", " ", " ", "k", ":", " ", "1">>
FragNestedOther == <<"m", ":", "\n", " ", " ", "j", ":", " ", "2">>
FragNullKey == <<"m", ":">>
FragSeqNumber == <<"x", ":", "\n", " ", " ", "-", " ", "1">>
FragSeqQuoted == <<"x", ":", "\n", " ", " ", "-", " ", "\"", "1", "\"">>
FragRootItem == <<"-", " ", "1">>
Fragments ==
  {FragScalarOne, FragScalarTwo, FragNested, FragNestedOther, FragNullKey,
   FragSeqNumber, FragSeqQuoted, FragRootItem}
DocumentsUpTo(n) == {join(fs, <<"\n">>) : fs \in SeqsUpTo(Fragments, n)}
\* arguments that are no string
NonStrings == {Null, Num(1)}
ExistingInputs ==
  {Str(d) : d \in DocumentsUpTo(MaxFragments)} \cup NonStrings
YamlUpdateInputs ==
  {Str(d) : d \in DocumentsUpTo(MaxUpdateFragments)} \cup NonStrings

YamlInit ==
  /\ yExisting \in ExistingInputs
  /\ yUpdate \in YamlUpdateInputs
  /\ yRes = NewMergeResult
  /\ yOut = <<>>
  /\ yPrev = <<>>
  /\ yRound = 1
  /\ yPc = "start"
  /\ ObjIdle
  /\ CallsIdle
  /\ RoundIdle

\* result = mergeYAML(existing, update)
MergeYAML ==
  /\ yPc = "start"
  /\ yRes' = mergeYAML(yExisting, yUpdate)
  /\ yPc' = "merged"
  /\ UNCHANGED <<yExisting, yUpdate, yOut, yPrev, yRound, objVars, callVars, roundVars, parseVars, installVars>>

\* result.toYAML(): it leaves the result as it is (see toYAML)
ToYAML ==
  /\ yPc = "merged"
  /\ yOut' = toYAML(yRes.data)
  /\ yPrev' = yOut
  /\ yPc' = "written"
  /\ UNCHANGED <<yExisting, yUpdate, yRes, yRound, objVars, callVars, roundVars, parseVars, installVars>>

\* the caller of the README: on success the text replaces the file, and
\* the next update round merges the same update into it
WriteBack ==
  /\ yPc = "written"
  /\ yRes.success
  /\ yRound < MaxRounds
  /\ yExisting' = Str(yOut)
  /\ yRound' = yRound + 1
  /\ yPc' = "start"
  /\ UNCHANGED <<yUpdate, yRes, yOut, yPrev, objVars, callVars, roundVars, parseVars, installVars>>

YamlNext == MergeYAML \/ ToYAML \/ WriteBack

SpecYAML == YamlInit /\ [][YamlNext]_vars

(***************************************************************************)
(* The helpers and the update rounds together: a run calls one exported    *)
(* helper on two values, or runs update rounds on two documents.           *)
(***************************************************************************)
Init == ObjInit \/ YamlInit
Next == ObjNext \/ YamlNext
Spec == Init /\ [][Next]_vars

(***************************************************************************)
(* Calls on result objects: up to two mergeYAML calls, each with its own   *)
(* arguments and its own room on the stack, followed in any order by       *)
(* toYAML() and validate() calls on the results and by validateYAML calls. *)
(***************************************************************************)
Callers == {"first", "second"}
StackRooms == 0..MaxRoom
CallExisting == {Str(FragScalarOne), Str(FragNested), Null}
CallUpdates == {Str(FragNested), Str(FragSeqNumber)}

CallsInit ==
  /\ CallsIdle
  /\ ObjIdle
  /\ YamlIdle
  /\ RoundIdle

\* the record kept of a call that has just returned or thrown; arg and
\* room are kept for validateYAML, which leaves nothing else behind
Returned(op, target, arg, room, raised, text, errors, valid) ==
  [op |-> op, target |-> target, arg |-> arg, room |-> room,
   raised |-> raised, text |-> text, errors |-> errors, valid |-> valid]

\* mergeYAML has run on the result constructed with the changelog id
StoreMerged(existing, update, room, id, logs, result) ==
  /\ cResults' = Append(cResults, asObject(result, id))
  /\ cLogs' = [logs EXCEPT ![id] = result.changelog]
  /\ cCalls' = Append(cCalls, [existing |-> existing, update |-> update,
                               room |-> room, failed |-> 0])
  /\ cLast' = Returned("mergeYAML", Len(cResults) + 1, Null, NoCall.room,
                       FALSE, <<>>, <<>>, TRUE)

ConstructAndMerge(existing, update, room, id, logs) ==
  StoreMerged(existing, update, room, id, logs,
              mergeYAMLWithin(withChangelog(asObject(NewMergeResult, id), logs),
                              existing, update, room))

\* const result = mergeYAML(existing, update)
CallMergeYAML ==
  /\ Len(cResults) < Cardinality(Callers)
  /\ \E existing \in CallExisting, update \in CallUpdates, room \in StackRooms :
       ConstructAndMerge(existing, update, room, newChangelog(cLogs),
                         constructChangelog(cLogs, newChangelog(cLogs)))
  /\ UNCHANGED <<objVars, yamlVars, roundVars, parseVars, installVars>>

\* the call on result i has left the result object as left
StoreResult(i, left, failed) ==
  /\ cResults' = [cResults EXCEPT ![i] = asObject(left, cResults[i].changelog)]
  /\ cCalls' = [cCalls EXCEPT ![i].failed = IF failed THEN @ + 1 ELSE @]
  /\ UNCHANGED cLogs

ToYAMLReturned(i, room, t) ==
  /\ StoreResult(i, t.result, toYAMLThrows(withChangelog(cResults[i], cLogs), room))
  /\ cLast' = Returned("toYAML", i, Null, NoCall.room, t.raised, t.text,
                       <<>>, TRUE)

\* results[i].toYAML()
CallToYAML ==
  /\ \E i \in 1..Len(cResults), room \in StackRooms :
       /\ cCalls[i].failed < MaxFailures
       /\ ToYAMLReturned(i, room,
                         toYAMLWithin(withChangelog(cResults[i], cLogs), room))
  /\ UNCHANGED <<objVars, yamlVars, roundVars, parseVars, installVars>>

ValidateReturned(i, room, v) ==
  /\ StoreResult(i, v.result, toYAMLThrows(withChangelog(cResults[i], cLogs), room))
  /\ cLast' = Returned("validate", i, Null, NoCall.room, v.raised, <<>>,
                       v.errors, TRUE)

\* results[i].validate()
CallValidate ==
  /\ \E i \in 1..Len(cResults), room \in StackRooms :
       /\ cCalls[i].failed < MaxFailures
       /\ ValidateReturned(i, room,
                           validateWithin(withChangelog(cResults[i], cLogs), room))
  /\ UNCHANGED <<objVars, yamlVars, roundVars, parseVars, installVars>>

ValidateYAMLReturned(content, room, v) ==
  cLast' = Returned("validateYAML", 0, content, room, FALSE, <<>>, v.errors,
                    v.valid)

\* validateYAML(content)
CallValidateYAML ==
  /\ \E content \in CallExisting, room \in StackRooms :
       ValidateYAMLReturned(content, room, validateYAML(content, room))
  /\ UNCHANGED <<cResults, cLogs, cCalls, objVars, yamlVars, roundVars, parseVars, installVars>>

CallsNext ==
  \/ CallMergeYAML
  \/ CallToYAML
  \/ CallValidate
  \/ CallValidateYAML

SpecCalls == CallsInit /\ [][CallsNext]_vars

(***************************************************************************)
(* A text parsed, the data serialized by serializeYAML, the text parsed    *)
(* again.                                                                  *)
(***************************************************************************)
RoundInit ==
  /\ rText \in {Str(d) : d \in DocumentsUpTo(MaxFragments)}
  /\ rParsed = Null
  /\ rSerialized = <<>>
  /\ rReparsed = Null
  /\ rPc = "text"
  /\ ParseIdle
  /\ InstallIdle
  /\ ObjIdle
  /\ YamlIdle
  /\ CallsIdle

\* parsed = parseYAML(text).data
ParseText ==
  /\ rPc = "text"
  /\ rParsed' = parseYAML(rText).data
  /\ rPc' = "parsed"
  /\ UNCHANGED <<rText, rSerialized, rReparsed, objVars, yamlVars, callVars,
                 parseVars, installVars>>

\* serialized = serializeYAML(parsed)
SerializeParsed ==
  /\ rPc = "parsed"
  /\ rSerialized' = serializeYAML(rParsed, 0)
  /\ rPc' = "serialized"
  /\ UNCHANGED <<rText, rParsed, rReparsed, objVars, yamlVars, callVars,
                 parseVars, installVars>>

\* reparsed = parseYAML(serialized).data
ParseSerialized ==
  /\ rPc = "serialized"
  /\ rReparsed' = parseYAML(Str(rSerialized)).data
  /\ rPc' = "reparsed"
  /\ UNCHANGED <<rText, rParsed, rSerialized, objVars, yamlVars, callVars,
                 parseVars, installVars>>

\* the lines a writer of the text may add: a blank line, a comment
BlankLine == <<>>
CommentLine == <<"#", " ", "c">>
SkippedLines == {BlankLine, CommentLine}

\* lines with line put in after the first at lines
insertLine(lines, at, line) ==
  SubSeq(lines, 1, at) \o <<line>> \o SubSeq(lines, at + 1, Len(lines))

\* the text is edited: a blank or comment line is put in at some position
InsertLine ==
  /\ rPc = "parsed"
  /\ \E line \in SkippedLines, at \in 0..Len(split(rText.s, "\n")) :
       eText' = join(insertLine(split(rText.s, "\n"), at, line), <<"\n">>)
  /\ rPc' = "edited"
  /\ UNCHANGED <<eData, sLines, sStack, sPc, roundData, objVars, yamlVars,
                 callVars, installVars>>

\* edited = parseYAML(the edited text).data
ParseEdited ==
  /\ rPc = "edited"
  /\ eData' = parseYAML(Str(eText)).data
  /\ rPc' = "edit parsed"
  /\ UNCHANGED <<eText, sLines, sStack, sPc, roundData, objVars, yamlVars,
                 callVars, installVars>>

RoundNext ==
  \/ ParseText
  \/ SerializeParsed
  \/ ParseSerialized
  \/ InsertLine
  \/ ParseEdited

SpecRound == RoundInit /\ [][RoundNext]_vars

(***************************************************************************)
(* The installer: install(flags) of the package and the loop of            *)
(* bin/cli.js.  A step is attempted by execSync, which returns or throws;  *)
(* the block that installs the command files calls mkdirSync and           *)
(* copyFileSync, which return or throw as the file system decides.         *)
(***************************************************************************)
Step(name, flag) == [name |-> name, flag |-> flag]

cliSteps ==
  <<Step("BMAD Method", "--skip-bmad"),
    Step("Spec Kit", "--skip-speckit"),
    Step("Agreement System", "--skip-agreements"),
    Step("ADR System", "--skip-adr"),
    Step("Mermaid Workbench", "--skip-mermaid"),
    Step("Feature Lifecycle Tracker", "--skip-lifecycle")>>

steps ==
  cliSteps \o
  <<Step("Knowledge System", "--skip-knowledge"),
    Step("Product Manager", "--skip-product")>>

EntryPoints == {"install", "cli"}
stepsOf(entry) == IF entry = "install" THEN steps ELSE cliSteps

SkipFlags == {steps[i].flag : i \in 1..Len(steps)}

\* steps.filter((s) => !flags.includes(s.flag)), as indices of the list
RECURSIVE nonSkippedFrom(_, _, _)
nonSkippedFrom(list, flags, i) ==
  IF i > Len(list) THEN <<>>
  ELSE IF list[i].flag \in flags THEN nonSkippedFrom(list, flags, i + 1)
  ELSE <<i>> \o nonSkippedFrom(list, flags, i + 1)
nonSkipped(list, flags) == nonSkippedFrom(list, flags, 1)

\* the call: let current = 0; const total = ...; the loop is at its start
InstallInit ==
  /\ iEntry \in EntryPoints
  /\ iFlags \in SUBSET SkipFlags
  /\ iTotal = Len(nonSkipped(stepsOf(iEntry), iFlags))
  /\ iNext = 1
  /\ iCurrent = 0
  /\ iAttempted = <<>>
  /\ iFailed = {}
  /\ iPc = "steps"
  /\ ObjIdle
  /\ YamlIdle
  /\ CallsIdle
  /\ rText = Null /\ rParsed = Null /\ rSerialized = <<>>
  /\ rReparsed = Null /\ rPc = "idle"
  /\ ParseIdle

\* if (flags.includes(step.flag)) { ...; continue; }
SkipStep ==
  /\ iPc = "steps"
  /\ iNext <= Len(stepsOf(iEntry))
  /\ stepsOf(iEntry)[iNext].flag \in iFlags
  /\ iNext' = iNext + 1
  /\ UNCHANGED <<iEntry, iFlags, iTotal, iCurrent, iAttempted, iFailed, iPc,
                 objVars, yamlVars, callVars, roundVars, parseVars>>

\* a plausible slip: execSync outside try/catch, the error leaves the loop
uncaughtFailure(pc) == "thrown"
\* catch (err) { console.error(...) }: the loop goes on
caughtFailure(pc) == pc

\* where the run is after execSync has returned or thrown
afterCommand(pc, failed) == IF failed THEN caughtFailure(pc) ELSE pc

\* current++; execSync(step.cmd) inside try/catch
RunStep ==
  /\ iPc = "steps"
  /\ iNext <= Len(stepsOf(iEntry))
  /\ stepsOf(iEntry)[iNext].flag \notin iFlags
  /\ iCurrent' = iCurrent + 1
  /\ iAttempted' = Append(iAttempted, iNext)
  /\ \E failed \in BOOLEAN :
       /\ iFailed' = IF failed THEN iFailed \cup {iNext} ELSE iFailed
       /\ iPc' = afterCommand(iPc, failed)
  /\ iNext' = iNext + 1
  /\ UNCHANGED <<iEntry, iFlags, iTotal, objVars, yamlVars, callVars,
                 roundVars, parseVars>>

\* what the file system does to the block installing the command files:
\* the commands directory is absent, the files are copied, or mkdirSync or
\* copyFileSync throws
CommandsOutcomes == {"absent", "installed", "threw"}

\* install(): the command files, then "Done! Project setup complete."
InstallCommands ==
  /\ iPc = "steps"
  /\ iEntry = "install"
  /\ iNext > Len(stepsOf(iEntry))
  /\ \E outcome \in CommandsOutcomes :
       iPc' = IF outcome = "threw" THEN "thrown" ELSE "done"
  /\ UNCHANGED <<iEntry, iFlags, iTotal, iNext, iCurrent, iAttempted, iFailed,
                 objVars, yamlVars, callVars, roundVars, parseVars>>

\* bin/cli.js: "Done! Project setup complete." follows the loop
FinishCli ==
  /\ iPc = "steps"
  /\ iEntry = "cli"
  /\ iNext > Len(stepsOf(iEntry))
  /\ iPc' = "done"
  /\ UNCHANGED <<iEntry, iFlags, iTotal, iNext, iCurrent, iAttempted, iFailed,
                 objVars, yamlVars, callVars, roundVars, parseVars>>

InstallNext == SkipStep \/ RunStep \/ InstallCommands \/ FinishCli

SpecInstall == InstallInit /\ [][InstallNext]_vars

\* the process runs on, and every command started returns or fails
SpecInstallFair == SpecInstall /\ WF_vars(InstallNext)

(***************************************************************************)
(* parseYAMLLines step by step: the calls in progress, each with the line  *)
(* index i of its loop.  One step is one pass of the while loop of the     *)
(* innermost call, a nested call, or a return.                             *)
(***************************************************************************)
Frame(start, expectedIndent, i) ==
  [start |-> start, expectedIndent |-> expectedIndent, i |-> i]

\* what the pass of the loop at line i of a call does with the index
moveAt(lines, expectedIndent, i, trimmed, indent) ==
  IF trimmed = <<>> \/ startsWith(trimmed, <<"#">>) THEN "skip"
  ELSE IF indent < expectedIndent THEN "break"
  ELSE IF indent > expectedIndent THEN "deeper"
  ELSE IF startsWith(trimmed, <<"-", " ">>)
    THEN (IF nextIsNestedObject(lines, i, indent) THEN "call" ELSE "next")
  ELSE IF includes(trimmed, ":")
    THEN (IF /\ trim(substring(trimmed, indexOf(trimmed, ":") + 1)) = <<>>
             /\ nextIsNested(lines, i, indent)
            THEN "call" ELSE "next")
  ELSE "next"

move(lines, frame) ==
  IF ~(frame.i < Len(lines)) THEN "end"
  ELSE moveAt(lines, frame.expectedIndent, frame.i,
              trim(lineAt(lines, frame.i)), indentOf(lineAt(lines, frame.i)))

\* a plausible slip: continue without i++ on a line indented deeper
deeperLineKept(i) == i
\* if (indent > expectedIndent) { i++; continue; }
deeperLineSkipped(i) == i + 1

Innermost == sStack[Len(sStack)]

\* the texts handed to the parser: the documents, and the documents with a
\* blank or comment line put in
editedLines(lines) ==
  {insertLine(lines, at, line) : at \in 0..Len(lines), line \in SkippedLines}
ParsedLines ==
  {split(d, "\n") : d \in DocumentsUpTo(MaxFragments) \ {<<>>}}
    \cup UNION {editedLines(split(d, "\n")) :
                  d \in DocumentsUpTo(MaxFragments) \ {<<>>}}

\* parseYAML has split the content and called parseYAMLLines(lines, 0)
StepInit ==
  /\ sLines \in ParsedLines
  /\ sStack = <<Frame(0, 0, 0)>>
  /\ sPc = "run"
  /\ eText = <<>> /\ eData = Null
  /\ rText = Null /\ rParsed = Null /\ rSerialized = <<>>
  /\ rReparsed = Null /\ rPc = "idle"
  /\ InstallIdle
  /\ ObjIdle
  /\ YamlIdle
  /\ CallsIdle

\* a pass that ends in i++; continue: a blank or comment line, an item, a
\* key with its value, any other line
NextLine ==
  /\ sPc = "run"
  /\ move(sLines, Innermost) \in {"skip", "next"}
  /\ sStack' = [sStack EXCEPT ![Len(sStack)].i = @ + 1]
  /\ UNCHANGED <<sLines, sPc, eText, eData, objVars, yamlVars, callVars,
                 roundVars, installVars>>

\* a pass on a line indented deeper than the level
DeeperLine ==
  /\ sPc = "run"
  /\ move(sLines, Innermost) = "deeper"
  /\ sStack' = [sStack EXCEPT ![Len(sStack)].i = deeperLineSkipped(@)]
  /\ UNCHANGED <<sLines, sPc, eText, eData, objVars, yamlVars, callVars,
                 roundVars, installVars>>

\* parseYAMLLines(lines, i + 1, nextIndent, ...) is called
CallNested ==
  /\ sPc = "run"
  /\ move(sLines, Innermost) = "call"
  /\ sStack' = Append(sStack,
                      Frame(Innermost.i + 1,
                            indentOf(lineAt(sLines, Innermost.i + 1)),
                            Innermost.i + 1))
  /\ UNCHANGED <<sLines, sPc, eText, eData, objVars, yamlVars, callVars,
                 roundVars, installVars>>

\* a nested call returns { data, i }: i = nested.i; continue
ReturnNested ==
  /\ sPc = "run"
  /\ Len(sStack) > 1
  /\ move(sLines, Innermost) \in {"end", "break"}
  /\ sStack' = [SubSeq(sStack, 1, Len(sStack) - 1)
                  EXCEPT ![Len(sStack) - 1].i = Innermost.i]
  /\ UNCHANGED <<sLines, sPc, eText, eData, objVars, yamlVars, callVars,
                 roundVars, installVars>>

\* the outermost call returns to parseYAML
ReturnToParseYAML ==
  /\ sPc = "run"
  /\ Len(sStack) = 1
  /\ move(sLines, Innermost) \in {"end", "break"}
  /\ sPc' = "done"
  /\ UNCHANGED <<sLines, sStack, eText, eData, objVars, yamlVars, callVars,
                 roundVars, installVars>>

StepNext ==
  \/ NextLine
  \/ DeeperLine
  \/ CallNested
  \/ ReturnNested
  \/ ReturnToParseYAML

SpecStep == StepInit /\ [][StepNext]_vars

\* the engine runs the call on: an enabled step is taken
SpecStepFair == SpecStep /\ WF_vars(StepNext)

(***************************************************************************)
(* Vocabulary of the properties.                                           *)
(***************************************************************************)
IsScalar(v) == v.t \in {"null", "bool", "num", "str"}
IsSequence(v) == v.t = "arr"
KeySet(v) == {Keys(v)[i] : i \in 1..Len(Keys(v))}

\* equality of two values as the data model defines it: same tag, scalars
\* by value, sequences item by item in order, mappings key by key whatever
\* the order of the keys
RECURSIVE ValueEqual(_, _)
ValueEqual(a, b) ==
  /\ a.t = b.t
  /\ CASE a.t = "arr" ->
            /\ Len(a.items) = Len(b.items)
            /\ \A i \in 1..Len(a.items) : ValueEqual(a.items[i], b.items[i])
       [] a.t = "obj" ->
            /\ KeySet(a) = KeySet(b)
            /\ \A k \in KeySet(a) : ValueEqual(Get(a, k), Get(b, k))
       [] OTHER -> a = b

\* placed, then the items of update[i..] that equal no item placed so far
RECURSIVE PlaceNew(_, _, _)
PlaceNew(placed, update, i) ==
  IF i > Len(update) THEN placed
  ELSE IF \E j \in 1..Len(placed) : ValueEqual(update[i], placed[j])
    THEN PlaceNew(placed, update, i + 1)
  ELSE PlaceNew(Append(placed, update[i]), update, i + 1)

KeyM == <<"m">>
KeyK == <<"k">>
KeyJ == <<"j">>

\* mergeYAML has returned for two arguments that are texts
MergedTexts ==
  /\ yPc = "merged"
  /\ yExisting.t = "str"
  /\ yUpdate.t = "str"

\* the value mergeYAML merges for an argument
ParsedData(text) == orEmptyObject(parseYAML(text).data)

\* every key path through the Mappings of e is a key path of d
RECURSIVE AllPathsIn(_, _)
AllPathsIn(e, d) ==
  \A k \in KeySet(e) :
    /\ HasKey(d, k)
    /\ IsMapping(Get(e, k)) => AllPathsIn(Get(e, k), Get(d, k))

MergeObjectsOfMappings ==
  /\ objCall = "mergeObjects"
  /\ IsMapping(objExisting)
  /\ IsMapping(objUpdate)

(***************************************************************************)
(* C1: merging the same update a second time into the text of the first    *)
(* merge gives the same text, character for character.                     *)
(***************************************************************************)
C1_Idempotent ==
  (yPc = "written" /\ yRound >= 2) => yOut = yPrev

(***************************************************************************)
(* C2: every key path through the Mappings of the parsed existing document *)
(* is a key path of mergeYAML(existing, update).data.                      *)
(***************************************************************************)
C2_NoPathRemoved ==
  (MergedTexts /\ IsMapping(ParsedData(yExisting))) =>
    AllPathsIn(ParsedData(yExisting), yRes.data)

(***************************************************************************)
(* C3: every top-level key of a Mapping existing is a key of               *)
(* mergeObjects(existing, update), whatever value update is.               *)
(***************************************************************************)
C3_KeyPreservation ==
  (objCall = "mergeObjects" /\ IsMapping(objExisting)) =>
    \A k \in KeySet(objExisting) : HasKey(objOut, k)

C3_Witness ==
  /\ MergeObjectsOfMappings
  /\ KeySet(objExisting) # {}
  /\ KeySet(objUpdate) \ KeySet(objExisting) # {}
  /\ KeySet(objExisting) \subseteq KeySet(objOut)

(***************************************************************************)
(* C4: deduplicateArrays(E, U).result is E, unchanged, followed by exactly *)
(* the items of U that are equal to no item already placed, in U's order.  *)
(***************************************************************************)
C4_DedupOrder ==
  (objCall = "deduplicateArrays" /\ IsSequence(objExisting)
     /\ IsSequence(objUpdate)) =>
    objOut.result.items = PlaceNew(objExisting.items, objUpdate.items, 1)

(***************************************************************************)
(* C5: the count deduplicateArrays returns is the number of update items   *)
(* dropped: result.length = E.length + U.length - deduped.                 *)
(***************************************************************************)
C5_DedupAccounting ==
  (objCall = "deduplicateArrays" /\ IsSequence(objExisting)
     /\ IsSequence(objUpdate)) =>
    Len(objOut.result.items) =
      Len(objExisting.items) + Len(objUpdate.items) - objOut.deduped

(***************************************************************************)
(* C6: for a key of both Mappings with two different scalar values,        *)
(* mergeObjects gives the update's value (the claim as stated), and the    *)
(* existing value (the claim as amended).                                  *)
(***************************************************************************)
ScalarConflictKeys ==
  {k \in KeySet(objExisting) \cap KeySet(objUpdate) :
     /\ IsScalar(Get(objExisting, k))
     /\ IsScalar(Get(objUpdate, k))
     /\ Get(objExisting, k) # Get(objUpdate, k)}

C6_UpdateWins ==
  MergeObjectsOfMappings =>
    \A k \in ScalarConflictKeys : Get(objOut, k) = Get(objUpdate, k)

C6_ExistingWins ==
  MergeObjectsOfMappings =>
    \A k \in ScalarConflictKeys : Get(objOut, k) = Get(objExisting, k)

C6_Witness ==
  /\ MergeObjectsOfMappings
  /\ Get(objExisting, KeyA) = Num(1)
  /\ Get(objUpdate, KeyA) = Num(2)
  /\ Get(objOut, KeyA) = Num(1)

(***************************************************************************)
(* C7: for a key of both Mappings whose values are not both Mappings and   *)
(* not both Sequences, mergeObjects keeps the existing value.              *)
(***************************************************************************)
C7_NoOverwrite ==
  MergeObjectsOfMappings =>
    \A k \in KeySet(objExisting) \cap KeySet(objUpdate) :
      (/\ ~(IsMapping(Get(objExisting, k)) /\ IsMapping(Get(objUpdate, k)))
       /\ ~(IsSequence(Get(objExisting, k)) /\ IsSequence(Get(objUpdate, k))))
        => Get(objOut, k) = Get(objExisting, k)

(***************************************************************************)
(* C8: for a key whose value is a Mapping on both sides, the merged value  *)
(* is a Mapping whose key set is the union of the two key sets, and a key  *)
(* found on one side only keeps that side's value; for mergeObjects, for   *)
(* mergeObjectsWithChangelog and for mergeYAML on two documents.           *)
(***************************************************************************)
MergedRoot ==
  IF objCall = "mergeObjects" THEN objOut ELSE objOut.data

ContainerMerged(e, u, m) ==
  (IsMapping(e) /\ IsMapping(u)) =>
    /\ IsMapping(m)
    /\ KeySet(m) = KeySet(e) \cup KeySet(u)
    /\ \A j \in KeySet(e) \ KeySet(u) : Get(m, j) = Get(e, j)
    /\ \A j \in KeySet(u) \ KeySet(e) : Get(m, j) = Get(u, j)

ContainersMerged(existing, update, merged) ==
  (IsMapping(existing) /\ IsMapping(update)) =>
    \A k \in KeySet(existing) \cap KeySet(update) :
      ContainerMerged(Get(existing, k), Get(update, k), Get(merged, k))

C9_DataIsMapping ==
  yPc \in {"merged", "written"} => IsMapping(yRes.data)

\* a document whose root parses to a sequence has been merged
C9_Witness ==
  /\ MergedTexts
  /\ IsSequence(parseYAML(yExisting).data)
  /\ yRes.success
  /\ IsMapping(yRes.data)
  /\ KeySet(yRes.data) # {}

(***************************************************************************)
(* C10: when existing or update is no string, mergeYAML returns with       *)
(* success = false and one error, the data still the empty Mapping and the *)
(* changelog without a record.                                             *)
(***************************************************************************)
C10_TypeRejection ==
  (yPc = "merged" /\ (yExisting.t # "str" \/ yUpdate.t # "str")) =>
    /\ ~yRes.success
    /\ yRes.errors \in {<<"existing parameter must be a string">>,
                        <<"update parameter must be a string">>}
    /\ yRes.data = EmptyObj
    /\ ChangelogIsEmpty(yRes.changelog)

\* a document that would parse to keys, merged with an update that is null
C10_Witness ==
  /\ yPc = "merged"
  /\ yExisting = Str(FragScalarOne)
  /\ yUpdate = Null
  /\ ~yRes.success
  /\ yRes.errors = <<"update parameter must be a string">>
  /\ yRes.data = EmptyObj

\* the call that returned last was mergeYAML; LastResult is what it returned
MergeYAMLReturned == cLast.op = "mergeYAML"
LastCall == cCalls[cLast.target]
LastResult == withChangelog(cResults[cLast.target], cLogs)

\* the result of a merge that did not take place, with the one error
Rejected(result, error) ==
  /\ ~result.success
  /\ result.errors = <<error>>
  /\ result.data = EmptyObj
  /\ ChangelogIsEmpty(result.changelog)

ParseErrorReported(existingParsed, updateParsed, result) ==
  /\ existingParsed.parseError =>
       Rejected(result, "Existing YAML parse error")
  /\ (~existingParsed.parseError /\ updateParsed.parseError) =>
       Rejected(result, "Update YAML parse error")

(***************************************************************************)
(* C11: when parsing either text gives a diagnostic, mergeYAML returns     *)
(* with success = false and one error that names the failing side, data    *)
(* the empty Mapping and the changelog without a record.                   *)
(***************************************************************************)
C11_ParseErrorShortCircuit ==
  (/\ MergeYAMLReturned
   /\ LastCall.existing.t = "str"
   /\ LastCall.update.t = "str") =>
    ParseErrorReported(parseYAMLWithin(LastCall.existing, LastCall.room),
                       parseYAMLWithin(LastCall.update, LastCall.room),
                       LastResult)

\* the existing text parsed, the update did not
C11_Witness ==
  /\ MergeYAMLReturned
  /\ LastCall.existing = Str(FragScalarOne)
  /\ LastCall.update = Str(FragNested)
  /\ ~parseYAMLWithin(LastCall.existing, LastCall.room).parseError
  /\ parseYAMLWithin(LastCall.update, LastCall.room).parseError
  /\ LastResult.errors = <<"Update YAML parse error">>

(***************************************************************************)
(* C12: mergeYAML, toYAML() and validate() never throw to their caller,    *)
(* whatever the arguments are and whether or not the parser or the         *)
(* serializer fails inside: the call returns and the failure is in the     *)
(* MergeResult.                                                            *)
(***************************************************************************)
C12_NeverRaises ==
  cLast.op \in {"mergeYAML", "toYAML", "validate"} => ~cLast.raised

\* a toYAML() call in which the serializer failed has returned ''
C12_Witness ==
  /\ cLast.op = "toYAML"
  /\ ~cLast.raised
  /\ cLast.text = <<>>
  /\ LastCall.failed = 1
  /\ LastResult.errors = <<"Serialization error">>
  /\ LastResult.data # EmptyObj

IsPrefix(a, b) == Len(a) <= Len(b) /\ SubSeq(b, 1, Len(a)) = a

\* what a step may do to a result object that exists before it
OnlyDiagnosed(before, after) ==
  /\ IsPrefix(before.errors, after.errors)
  /\ after.success => before.success
  /\ after.data = before.data

(***************************************************************************)
(* C13: once mergeYAML has returned a result, no toYAML() or validate()    *)
(* call, and no other call, does more to it than append to errors and set  *)
(* success to false: errors never shrinks, success never goes back to      *)
(* true, data is never rewritten.                                          *)
(***************************************************************************)
C13_Progression ==
  [][\A i \in 1..Len(cResults) : OnlyDiagnosed(cResults[i], cResults'[i])]_vars

\* a validate() call whose serializer failed has changed a successful result
C13_Witness ==
  /\ cLast.op = "validate"
  /\ LastCall.failed = 1
  /\ ~LastResult.success
  /\ LastResult.errors = <<"Serialization error">>
  /\ LastResult.data # EmptyObj


(***************************************************************************)
(* C14: for data that came out of parseYAML, parsing the text that         *)
(* serializeYAML writes for it gives data equal to it.                     *)
(***************************************************************************)
C14_RoundTrip ==
  rPc = "reparsed" => ValueEqual(rReparsed, rParsed)


\* the result the call alone returns: no other call made before or after
Alone(call) ==
  mergeYAMLWithin(NewMergeResult, call.existing, call.update, call.room)

\* result is what alone has become after the toYAML() and validate() calls
\* made on it, failed of which met a failure of the serializer
SameAsAlone(result, alone, failed) ==
  /\ result.data = alone.data
  /\ result.changelog = alone.changelog
  /\ result.errors = alone.errors \o [j \in 1..failed |-> "Serialization error"]
  /\ result.success = (alone.success /\ failed = 0)

(***************************************************************************)
(* C15: whatever mergeYAML calls are made and however the toYAML() and     *)
(* validate() calls on their results interleave, the data, the errors, the *)
(* success flag and the changelog of each result are those the call would  *)
(* have given had no other call been made: every call has its own          *)
(* MergeResult and its own MergeChangelog.                                 *)
(***************************************************************************)
C15_NoSharedState ==
  \A i \in 1..Len(cResults) :
    SameAsAlone(withChangelog(cResults[i], cLogs), Alone(cCalls[i]),
                cCalls[i].failed)

\* two results with different change records; a toYAML() or validate()
\* call on the second has failed after both merges, the first is untouched
C15_Witness ==
  /\ Len(cResults) = 2
  /\ cLogs[cResults[1].changelog].added # <<>>
  /\ cLogs[cResults[2].changelog].added # <<>>
  /\ cLogs[cResults[1].changelog] # cLogs[cResults[2].changelog]
  /\ cCalls[1].failed = 0
  /\ cCalls[2].failed = 1
  /\ cResults[1].success
  /\ ~cResults[2].success


\* the tag of a Value: null, boolean, number, string, sequence, mapping
Tag(v) == v.t

(***************************************************************************)
(* C16: deepEqual is true only for two values of the same kind: called on  *)
(* two values whose tags differ, a sequence against a mapping included,    *)
(* it returns false.                                                       *)
(***************************************************************************)
C16_TagsMatch ==
  (objCall = "deepEqual" /\ Tag(objExisting) # Tag(objUpdate)) =>
    objOut = Bool(FALSE)


\* what validateYAML is to report of a text, given what the parser returns
ReportsParse(parsed, valid, errors) ==
  /\ valid <=> ~parsed.parseError
  /\ parsed.parseError => errors # <<>>

(***************************************************************************)
(* C17: validateYAML called on a non-empty text returns valid = true if    *)
(* and only if parsing the text gave no diagnostic; when the parser        *)
(* reports a parse error, valid is false and errors holds the message.     *)
(***************************************************************************)
C17_ValidIffParsed ==
  (/\ cLast.op = "validateYAML"
   /\ cLast.arg.t = "str"
   /\ cLast.arg.s # <<>>) =>
    ReportsParse(parseYAMLWithin(cLast.arg, cLast.room), cLast.valid,
                 cLast.errors)


\* the number of update items dropped by the deduplication of the data
\* model: an item is dropped when it equals an item already in the merged
\* sequence acc, and is appended to it otherwise
RECURSIVE DroppedFrom(_, _, _)
DroppedFrom(acc, ups, i) ==
  IF i > Len(ups) THEN 0
  ELSE IF \E j \in 1..Len(acc) : ValueEqual(ups[i], acc[j])
    THEN 1 + DroppedFrom(acc, ups, i + 1)
  ELSE DroppedFrom(Append(acc, ups[i]), ups, i + 1)

Dropped(existingSeq, updateSeq) ==
  DroppedFrom(existingSeq.items, updateSeq.items, 1)

\* the Deduplicated records of the changelog for section k
DeduplicatedRecords(changelog, k) ==
  {r \in {changelog.deduplicated[i] :
            i \in 1..Len(changelog.deduplicated)} : r.section = k}

\* the changelog holds Deduplicated(k, n) if and only if n > 0
RecordsDropped(changelog, k, n) ==
  DeduplicatedRecords(changelog, k) =
    IF n > 0 THEN {[section |-> k, count |-> n]} ELSE {}

(***************************************************************************)
(* C18: when mergeYAML meets a key whose value is a Sequence in both       *)
(* documents, the changelog gets a Deduplicated(k, n) record if and only   *)
(* if n > 0, n being the number of update items dropped because they were  *)
(* equal to an item already in the merged sequence.                        *)
(***************************************************************************)
C18_DeduplicatedRecord ==
  (MergedTexts /\ yRes.success) =>
    \A k \in KeySet(ParsedData(yExisting)) \cap KeySet(ParsedData(yUpdate)) :
      (/\ IsSequence(Get(ParsedData(yExisting), k))
       /\ IsSequence(Get(ParsedData(yUpdate), k))) =>
        RecordsDropped(yRes.changelog, k,
                       Dropped(Get(ParsedData(yExisting), k),
                               Get(ParsedData(yUpdate), k)))


(***************************************************************************)
(* C19: in every state of a MergeResult that mergeYAML has returned, at    *)
(* the return and after any toYAML() and validate() calls made on it       *)
(* later, success is false if and only if errors is not empty.             *)
(***************************************************************************)
C19_SuccessIffNoErrors ==
  \A i \in 1..Len(cResults) :
    ~cResults[i].success <=> cResults[i].errors # <<>>

\* a result returned with success and no error has lost both in a later
\* toYAML() call, next to a result that mergeYAML returned with an error
C19_Witness ==
  /\ cLast.op = "toYAML"
  /\ Len(cResults) = 2
  /\ Alone(LastCall).success
  /\ Alone(LastCall).errors = <<>>
  /\ ~LastResult.success
  /\ LastResult.errors # <<>>
  /\ \E i \in 1..Len(cResults) :
       /\ i # cLast.target
       /\ ~Alone(cCalls[i]).success
       /\ cResults[i].errors # <<>>


\* the two values are neither both Mappings nor both Sequences
IsConflict(e, u) ==
  /\ ~(IsMapping(e) /\ IsMapping(u))
  /\ ~(IsSequence(e) /\ IsSequence(u))

\* the changelog holds no record for section k
NoRecordFor(changelog, k) ==
  /\ \A i \in 1..Len(changelog.added) : changelog.added[i].section # k
  /\ \A i \in 1..Len(changelog.deduplicated) :
       changelog.deduplicated[i].section # k
  /\ \A i \in 1..Len(changelog.merged) : changelog.merged[i].section # k
  /\ changelog.preserved = <<>>

\* m is the existing value e when e and u are equal, and u otherwise
ConflictSettled(e, u, m) ==
  IF ValueEqual(e, u) THEN ValueEqual(m, e) ELSE ValueEqual(m, u)

ConflictsSettled(existing, update, merged, changelog) ==
  (IsMapping(existing) /\ IsMapping(update)) =>
    \A k \in KeySet(existing) \cap KeySet(update) :
      IsConflict(Get(existing, k), Get(update, k)) =>
        /\ ConflictSettled(Get(existing, k), Get(update, k), Get(merged, k))
        /\ NoRecordFor(changelog, k)

HasMergedRecord(changelog, k) ==
  \E i \in 1..Len(changelog.merged) : changelog.merged[i].section = k

(***************************************************************************)
(* C21: every time mergeYAML meets a key whose value is a Mapping in both  *)
(* documents and recurses into it, a Merged(k, keys) record is appended    *)
(* to the merged list of the changelog.                                    *)
(***************************************************************************)
C21_MergedRecord ==
  (/\ MergedTexts
   /\ IsMapping(ParsedData(yExisting))
   /\ IsMapping(ParsedData(yUpdate))) =>
    \A k \in KeySet(ParsedData(yExisting)) \cap KeySet(ParsedData(yUpdate)) :
      (/\ IsMapping(Get(ParsedData(yExisting), k))
       /\ IsMapping(Get(ParsedData(yUpdate), k))) =>
        HasMergedRecord(yRes.changelog, k)


\* the changelog holds an Added record for section k
HasAddedRecord(changelog, k) ==
  \E i \in 1..Len(changelog.added) : changelog.added[i].section = k

(***************************************************************************)
(* C22: when mergeYAML copies a key found only in the update, an Added     *)
(* record is written for the key if and only if the update's value is a    *)
(* Sequence or a Mapping; a scalar (null, boolean, number, string) added   *)
(* writes no record.                                                       *)
(***************************************************************************)
C22_AddedRecord ==
  (/\ MergedTexts
   /\ IsMapping(ParsedData(yExisting))
   /\ IsMapping(ParsedData(yUpdate))) =>
    \A k \in KeySet(ParsedData(yUpdate)) \ KeySet(ParsedData(yExisting)) :
      HasAddedRecord(yRes.changelog, k) <=>
        (\/ IsSequence(Get(ParsedData(yUpdate), k))
         \/ IsMapping(Get(ParsedData(yUpdate), k)))


\* the step is a validate() call on result i inside which the serializer
\* has failed
ValidateFailedOn(i) ==
  /\ cLast'.op = "validate"
  /\ cLast'.target = i
  /\ cCalls'[i].failed > cCalls[i].failed

(***************************************************************************)
(* C23: validate() reports a failure of the serializer in the list it      *)
(* returns: whenever serializing the data fails inside a validate() call,  *)
(* the list returned holds an error for it.                                *)
(***************************************************************************)
C23_ValidateReportsFailure ==
  [][\A i \in 1..Len(cResults) :
       ValidateFailedOn(i) => cLast'.errors # <<>>]_vars


(***************************************************************************)
(* C24: when the root of either text is no Mapping (a text of top-level    *)
(* dash-lines parses to a root Sequence), mergeYAML does not merge: it     *)
(* returns success = false with an error, and data made from no root.      *)
(***************************************************************************)
C24_RootMustBeMapping ==
  (/\ MergedTexts
   /\ \/ ~IsMapping(ParsedData(yExisting))
      \/ ~IsMapping(ParsedData(yUpdate))) =>
    /\ ~yRes.success
    /\ yRes.errors # <<>>
    /\ yRes.data = EmptyObj


\* a line of a serialized text that opens a key of the root Mapping
IsRootKeyLine(line) ==
  /\ line # <<>>
  /\ indentOf(line) = 0
  /\ line[1] # "-"
  /\ includes(line, ":")

\* the keys of the root Mapping in the order the text has them
RootKeysOf(text) ==
  LET keyLines == SelectSeq(split(text, "\n"), IsRootKeyLine)
  IN [i \in 1..Len(keyLines) |->
        SubSeq(keyLines[i], 1, indexOf(keyLines[i], ":"))]

IsAscending(keys) ==
  \A i, j \in 1..Len(keys) : i < j => TextLess(keys[i], keys[j])

(***************************************************************************)
(* C25: the serialized text has the keys of every Mapping in ascending     *)
(* lexicographic order whatever the order they were inserted in, the root  *)
(* included: in the text toYAML() returns, the keys of the root are in     *)
(* sorted order.                                                           *)
(***************************************************************************)
C25_KeysSorted ==
  yPc = "written" => IsAscending(RootKeysOf(yOut))


\* the lines of a text that belong to the root: not blank, no comment, not
\* indented
TopLevelLines(text) ==
  SelectSeq(split(text, "\n"),
            LAMBDA line : /\ trim(line) # <<>>
                          /\ trim(line)[1] # "#"
                          /\ indentOf(line) = 0)

IsDashLine(line) == startsWith(trim(line), <<"-">>)
IsKeyLine(line) == ~IsDashLine(line) /\ includes(line, ":")
KeyOfLine(line) == trim(SubSeq(line, 1, indexOf(line, ":")))

\* the root parsed from text is of the kind the top-level lines call for
RootKindOf(text, root) ==
  LET top == TopLevelLines(text)
  IN /\ IsSequence(root) => \A i \in 1..Len(top) : IsDashLine(top[i])
     /\ \A i \in 1..Len(top) :
          IsKeyLine(top[i]) =>
            IsMapping(root) /\ HasKey(root, KeyOfLine(top[i]))

(***************************************************************************)
(* C27: parseYAML returns a root Sequence only when every top-level line   *)
(* that is neither blank nor a comment is a dash-line; a text with at      *)
(* least one top-level key: value line parses to a root Mapping that has   *)
(* the key.                                                                *)
(***************************************************************************)
C27_RootKind ==
  rPc \in {"parsed", "serialized", "reparsed"} => RootKindOf(rText.s, rParsed)


(***************************************************************************)
(* C26: the parser skips blank lines and comment lines wherever they are:  *)
(* a text with such a line put in at any position, directly after a key    *)
(* line that opens a nested block included, parses to the same data.       *)
(***************************************************************************)
C26_SkippedLines ==
  rPc = "edit parsed" => ValueEqual(eData, rParsed)


(***************************************************************************)
(* C28: the merge isolates the existing value of its caller: no container  *)
(* of the result mergeObjects returns is an object of existing, so a later *)
(* change made in place to a container of the result does not change       *)
(* existing.                                                               *)
(***************************************************************************)
C28_ExistingIsolated ==
  [][objCall' = "changed" => objExisting' = objExisting]_vars


\* the steps the flags leave to run, in the declared order
ExpectedSteps == nonSkipped(stepsOf(iEntry), iFlags)

\* the loop over the steps is over: every step left to run was attempted
\* once, in order, no other was, and current counts them
EveryStepAttempted ==
  /\ iAttempted = ExpectedSteps
  /\ iCurrent = Len(ExpectedSteps)
  /\ iCurrent = iTotal

\* the run has ended: at Done, or by an error thrown out of it
RunEnded == iPc \in {"done", "thrown"}

IndexProgress(n, after) ==
  /\ (after = n /\ sPc' = "run") => sStack'[n].i > sStack[n].i
  /\ after = n + 1 =>
       /\ sStack'[after].start > sStack[n].i
       /\ sStack'[after].i = sStack'[after].start
       /\ sStack'[n] = sStack[n]
  /\ after = n - 1 => sStack'[after].i > sStack[after].i

(***************************************************************************)
(* C30: the parser terminates on every finite input: every pass of the     *)
(* loop of parseYAMLLines and every return from a nested call leaves the   *)
(* line index greater than it was, every nested call starts at an index    *)
(* greater than the line of its caller, and parseYAML returns after        *)
(* finitely many steps.                                                    *)
(***************************************************************************)
C30_ParserTerminates ==
  /\ [][IndexProgress(Len(sStack), Len(sStack'))]_vars
  /\ <>(sPc = "done")

\* a text with a nested block and a comment line has been parsed to its end
C30_Witness ==
  /\ sPc = "done"
  /\ sLines = insertLine(split(FragNested, "\n"), 2, CommentLine)
  /\ sStack = <<Frame(0, 0, Len(sLines))>>

=============================================================================
